---- MODULE Spec2Model ----
(***************************************************************************)
(* Scrambled Squares server core: constrained random grid generation       *)
(* (server/core/grid.ts), the exhaustive word search over the 4x4 grid,    *)
(* the daily puzzle assembly with its Redis writes (server/core/storage.ts)*)
(* and the validation of a submitted word (server/core/dictionary.ts).     *)
(*                                                                         *)
(* Conventions.                                                            *)
(*  - A string is a sequence of one-character strings, <<"C","A","T">>.    *)
(*  - A JavaScript array is a sequence; the 0-based index i of the code is *)
(*    position i + 1 of the sequence.                                      *)
(*  - A JavaScript Set is a sequence without duplicates in insertion       *)
(*    order (the iteration order Array.from sees).                         *)
(*  - Math.random() returns k / RandDen for the next k on a periodic tape  *)
(*    of TapeLen draws that Init chooses; every call consumes one draw.    *)
(*  - Weights are fixed-point numbers in millionths.                       *)
(***************************************************************************)
EXTENDS Integers, Sequences, FiniteSets, TLC

(***************************************************************************)
(* Bounds of the model.                                                    *)
(***************************************************************************)
\* period of the tape of Math.random() results
TapeLen == 4
\* Math.random() takes the values 0/RandDen .. (RandDen-1)/RandDen
RandDen == 3
\* regenerations of one generateDailyPuzzle call that are followed
MaxRejects == 3
\* longest line of the word list that is kept in the modelled files
MaxWordLen == 4
\* generateDailyPuzzle calls in one run of the server
MaxCalls == 2
\* longest list handed to weightedRandomChoice on its own
MaxItems == 3
\* POST /api/submit-score requests in one run of the server
MaxSubmits == 2

\* the clock of the rate limiter advances at most MaxTicks times
MaxTicks == 2
\* longest selection of cells of the client
MaxPath == 4
\* seconds on the timer of a game
MaxSeconds == 3

(***************************************************************************)
(* Program constants (grid.ts:7-24).                                       *)
(***************************************************************************)
GRID_SIZE == 4
MIN_VOWELS == 4
MIN_CONSONANTS == 8
maxAttempts == 10
MIN_WORD_COUNT == 10
VOWELS == <<"A", "E", "I", "O", "U">>
CONSONANTS ==
    <<"B", "C", "D", "F", "G", "H", "J", "K", "L", "M",
      "N", "P", "Q", "R", "S", "T", "V", "W", "X", "Y", "Z">>
\* LETTER_FREQUENCIES, in millionths
LETTER_FREQUENCIES ==
    [l \in {VOWELS[i] : i \in 1..5} \cup {CONSONANTS[i] : i \in 1..21} |->
       CASE l = "A" -> 8200000 [] l = "B" -> 1500000 [] l = "C" -> 2800000
         [] l = "D" -> 4300000 [] l = "E" -> 13000000 [] l = "F" -> 2200000
         [] l = "G" -> 2000000 [] l = "H" -> 6100000 [] l = "I" -> 7000000
         [] l = "J" -> 150000 [] l = "K" -> 770000 [] l = "L" -> 4000000
         [] l = "M" -> 2400000 [] l = "N" -> 6700000 [] l = "O" -> 7500000
         [] l = "P" -> 1900000 [] l = "Q" -> 95000 [] l = "R" -> 6000000
         [] l = "S" -> 6300000 [] l = "T" -> 9100000 [] l = "U" -> 2800000
         [] l = "V" -> 980000 [] l = "W" -> 2400000 [] l = "X" -> 150000
         [] l = "Y" -> 2000000 [] l = "Z" -> 74000]

Idx == 0..(GRID_SIZE - 1)
Range(s) == {s[i] : i \in 1..Len(s)}
VowelSet == Range(VOWELS)
ConsonantSet == Range(CONSONANTS)
\* null / undefined is the empty sequence, a value v is <<v>>
Null == <<>>
Undefined == <<>>
Some(v) == <<v>>
ValueOf(x) == x[1]

VARIABLES
    randomTape,     \* the results Math.random() cycles through
    randomPos,      \* draws consumed so far, modulo TapeLen
    scrabbleData,   \* lines of data/scrabble.txt
    scrabbleWords,  \* GridGenerator.scrabbleWords (Undefined before initialize)
    dictionary,     \* DictionaryService: [initialized, scrabbleWords]
    calls,          \* generateDailyPuzzle calls made so far
    pc,             \* position of the running generateDailyPuzzle call
    letters,        \* placeLettersInGrid: the letters array
    grid,           \* generateGrid: the grid being filled / searched
    attempts,       \* placeLettersInGrid: attempts of the current frame
    validWords,     \* findValidWords: the result set (insertion order)
    foundPaths,     \* for each word of validWords, the path that found it
    rejects,        \* generateDailyPuzzle frames that regenerated
    writers,        \* positions of setDailyGrid and setDailyWords
    redis,          \* Redis: key -> value or Null
    redisTtl,       \* Redis: keys that carry an expiry
    request,        \* /api/validate-word request in flight, or Null
    response,       \* the last ValidateWordResponse with its request, or Null
    storedBefore,   \* what the grid and words keys held when the call began
    choice,         \* a weightedRandomChoice call: [items, weightFn, returned]
    readable,       \* whether data/scrabble.txt can be read
    initResult,     \* how the last initialize call ended, or Null
    submits,        \* POST /api/submit-score requests being handled
    post,           \* createPost: the position of the call
    second,         \* a second generateDailyPuzzle call, or Null
    rateLimits,     \* rateLimits: ip -> RateInfo, or Null
    now,            \* Date.now(), in milliseconds since the server started
    passed,         \* for each ip, when its last requests reached a handler
    gameBoard       \* the GameBoard of the client, Null before startGame

vars == <<randomTape, randomPos, scrabbleData, scrabbleWords, dictionary,
          calls, pc, letters, grid, attempts, validWords, foundPaths, rejects,
          writers, redis, redisTtl, request, response, storedBefore, choice, readable,
                   initResult,
          submits, post, second, rateLimits, now, passed,
          gameBoard>>

(***************************************************************************)
(* Math.random()                                                           *)
(***************************************************************************)
MathRandom(pos) == randomTape[pos % TapeLen]

(***************************************************************************)
(* GridGenerator.weightedRandomChoice (grid.ts:276-302).  rnd is the       *)
(* numerator of Math.random(); the running remainder is kept multiplied by *)
(* RandDen so that it stays an integer.                                    *)
(***************************************************************************)
\* weights.reduce((sum, w) => sum + w, 0) over items[lo..hi]
RECURSIVE SumWeights(_, _, _, _)
SumWeights(items, weightFn, lo, hi) ==
    IF lo > hi THEN 0
    ELSE IF lo = hi THEN weightFn[items[lo]]
    ELSE LET mid == (lo + hi) \div 2
         IN SumWeights(items, weightFn, lo, mid)
            + SumWeights(items, weightFn, mid + 1, hi)

\* weightedRandomChoice answering an empty list with a default letter
weightedRandomChoiceWithDefault(items, weightFn, rnd) ==
    IF Len(items) = 0 THEN "A"
    ELSE LET random == rnd * SumWeights(items, weightFn, 1, Len(items))
             returns ==
                 {i \in 1..Len(items) :
                    random - SumWeights(items, weightFn, 1, i) * RandDen <= 0}
         IN IF returns = {} THEN items[1]
            ELSE items[CHOOSE i \in returns : \A k \in returns : i <= k]

\* The for loop subtracts the weights one after the other from random and
\* returns at the first i where the rest is <= 0: the first i at which the
\* weights of items[1..i] add up to random or more.  Without such an i the
\* first item is returned.
weightedRandomChoice(items, weightFn, rnd) ==
    IF Len(items) = 0 THEN "Error: Cannot make a choice from an empty array"
    ELSE LET random == rnd * SumWeights(items, weightFn, 1, Len(items))
             returns ==
                 {i \in 1..Len(items) :
                    random - SumWeights(items, weightFn, 1, i) * RandDen <= 0}
         IN IF returns = {} THEN items[1]
            ELSE items[CHOOSE i \in returns : \A k \in returns : i <= k]

(***************************************************************************)
(* GridGenerator.generateBalancedLetterSet (grid.ts:54-95).  Draw is the   *)
(* body of each of its three for loops: one letter drawn from keys with    *)
(* the weights s.dist, pushed, and its weight multiplied by num/den.       *)
(* DrawLoop is n iterations.  s is [letters, dist, pos, thrown]: the       *)
(* letters pushed so far, the weights, the position of the tape, and       *)
(* whether weightedRandomChoice has thrown, which ends the function.       *)
(***************************************************************************)
Draw(keys, num, den, s) ==
    LET l == weightedRandomChoice(keys, s.dist, MathRandom(s.pos))
    IN IF l \notin Range(keys) THEN [s EXCEPT !.thrown = TRUE]
       ELSE [letters |-> Append(s.letters, l),
             dist |-> [s.dist EXCEPT ![l] = (@ * num) \div den],
             pos |-> s.pos + 1,
             thrown |-> FALSE]

RECURSIVE DrawLoop(_, _, _, _, _)
DrawLoop(n, keys, num, den, s) ==
    IF n = 0 \/ s.thrown THEN s
    ELSE DrawLoop(n - 1, keys, num, den, Draw(keys, num, den, s))

\* generateBalancedLetterSet with the consonant loop drawing from all letters
generateBalancedLetterSetAnyLetter(pos) ==
    LET allDist == [l \in VowelSet \cup ConsonantSet |-> LETTER_FREQUENCIES[l]]
        v == DrawLoop(MIN_VOWELS, VOWELS, 1, 2,
                      [letters |-> <<>>, dist |-> allDist, pos |-> pos,
                       thrown |-> FALSE])
    IN DrawLoop((GRID_SIZE * GRID_SIZE) - MIN_VOWELS, VOWELS \o CONSONANTS,
                1, 2, v)

generateBalancedLetterSet(pos) ==
    LET vowelDist == [v \in VowelSet |-> LETTER_FREQUENCIES[v]]
        consDist == [c \in ConsonantSet |-> LETTER_FREQUENCIES[c]]
        v == DrawLoop(MIN_VOWELS, VOWELS, 1, 2,
                      [letters |-> <<>>, dist |-> vowelDist, pos |-> pos,
                       thrown |-> FALSE])
        c == DrawLoop(MIN_CONSONANTS, CONSONANTS, 1, 2,
                      [v EXCEPT !.dist = consDist])
        remaining == (GRID_SIZE * GRID_SIZE) - Len(c.letters)
        allDist == [l \in VowelSet \cup ConsonantSet |->
                      IF l \in VowelSet THEN v.dist[l] ELSE c.dist[l]]
    IN DrawLoop(remaining, VOWELS \o CONSONANTS, 7, 10,
                [c EXCEPT !.dist = allDist])

(***************************************************************************)
(* GridGenerator.shuffleArray (grid.ts:304-313): Fisher-Yates, i from      *)
(* length-1 down to 1, j = floor(Math.random() * (i + 1)); the two         *)
(* elements are swapped when both are defined.                             *)
(***************************************************************************)
RECURSIVE ShuffleLoop(_, _, _)
ShuffleLoop(array, i, pos) ==
    IF i <= 0 THEN [array |-> array, pos |-> pos]
    ELSE LET j == (MathRandom(pos) * (i + 1)) \div RandDen
         IN IF (i + 1) \in DOMAIN array /\ (j + 1) \in DOMAIN array
            THEN ShuffleLoop([array EXCEPT ![i + 1] = array[j + 1],
                                           ![j + 1] = array[i + 1]],
                             i - 1, pos + 1)
            ELSE ShuffleLoop(array, i - 1, pos + 1)

shuffleArray(array, pos) == ShuffleLoop(array, Len(array) - 1, pos)

(***************************************************************************)
(* GridGenerator.isValidPlacement (grid.ts:143-173)                        *)
(***************************************************************************)
\* isValidPlacement without the check of the column
isValidPlacementRowOnly(g, row, col, letter) ==
    IF row < 0 \/ row >= GRID_SIZE \/ col < 0 \/ col >= GRID_SIZE THEN FALSE
    ELSE IF col >= 2 /\ g[row][col - 2] = letter /\ g[row][col - 1] = letter
         THEN FALSE
    ELSE TRUE

isValidPlacement(g, row, col, letter) ==
    IF row < 0 \/ row >= GRID_SIZE \/ col < 0 \/ col >= GRID_SIZE THEN FALSE
    ELSE IF col >= 2 /\ g[row][col - 2] = letter /\ g[row][col - 1] = letter
         THEN FALSE
    ELSE IF row >= 2 /\ g[row - 2][col] = letter /\ g[row - 1][col] = letter
         THEN FALSE
    ELSE TRUE

(***************************************************************************)
(* The two nested for loops of one placement attempt (grid.ts:105-121):    *)
(* row-major, stopping at the first letter that isValidPlacement refuses.  *)
(***************************************************************************)
RECURSIVE PlacementLoop(_, _, _)
PlacementLoop(ls, g, index) ==
    IF index >= GRID_SIZE * GRID_SIZE THEN [validPlacement |-> TRUE, grid |-> g]
    ELSE LET i == index \div GRID_SIZE
             j == index % GRID_SIZE
             letter == ls[index + 1]
         IN IF isValidPlacement(g, i, j, letter)
            THEN PlacementLoop(ls, [g EXCEPT ![i][j] = letter], index + 1)
            ELSE [validPlacement |-> FALSE, grid |-> g]

(***************************************************************************)
(* String.prototype.toUpperCase and String.prototype.trim                  *)
(***************************************************************************)
UpperCaseLetters ==
    <<"A", "B", "C", "D", "E", "F", "G", "H", "I", "J", "K", "L", "M",
      "N", "O", "P", "Q", "R", "S", "T", "U", "V", "W", "X", "Y", "Z">>
LowerCaseLetters ==
    <<"a", "b", "c", "d", "e", "f", "g", "h", "i", "j", "k", "l", "m",
      "n", "o", "p", "q", "r", "s", "t", "u", "v", "w", "x", "y", "z">>
WhiteSpace == {" "}

UpperCaseOf ==
    [c \in {LowerCaseLetters[n] : n \in 1..26} |->
        UpperCaseLetters[CHOOSE n \in 1..26 : LowerCaseLetters[n] = c]]

toUpperCase(str) ==
    [k \in 1..Len(str) |->
        IF str[k] \in DOMAIN UpperCaseOf THEN UpperCaseOf[str[k]] ELSE str[k]]

RECURSIVE trimStart(_)
trimStart(str) ==
    IF Len(str) > 0 /\ str[1] \in WhiteSpace THEN trimStart(Tail(str)) ELSE str

RECURSIVE trimEnd(_)
trimEnd(str) ==
    IF Len(str) > 0 /\ str[Len(str)] \in WhiteSpace
    THEN trimEnd(SubSeq(str, 1, Len(str) - 1)) ELSE str

trim(str) == trimEnd(trimStart(str))

(***************************************************************************)
(* The Set built from the word list by GridGenerator.initialize            *)
(* (grid.ts:32-33) and by DictionaryService.initialize                     *)
(* (dictionary.ts:16-17): every line trimmed and upper-cased.              *)
(***************************************************************************)
LoadWordSet(data) == {toUpperCase(trim(line)) : line \in data}

(***************************************************************************)
(* GridGenerator.isValidWord (grid.ts:193-195) against a loaded word set.  *)
(***************************************************************************)
isValidWord(word) ==
    Len(word) >= 3 /\ toUpperCase(word) \in ValueOf(scrabbleWords)

(***************************************************************************)
(* GridGenerator.findWordsFromCell (grid.ts:225-274).  st carries the      *)
(* objects the frames share: visited (the set of cells marked true) and    *)
(* validWords; st.paths records, for every word of validWords, the cells   *)
(* of the call stack at the moment the word was added (the path that       *)
(* discovered it; path is that stack).  A frame whose string is as long as *)
(* the longest word of the set cannot lead to another add, here or in any  *)
(* frame below it, so its neighbour loops are not followed: depth is that  *)
(* length.                                                                 *)
(*                                                                         *)
(* f is the frame: [g, row, col, newWord, path, depth].  The two for loops *)
(* over i and j in -1..1 are written out.  Neighbour is the body of the    *)
(* inner loop for one (i, j); NeighbourRow is the inner loop for one i,    *)
(* with NeighbourRowJ0 and NeighbourRowJ1 its second and third iteration;  *)
(* NeighbourLoop is the outer loop, with NeighbourLoopI0 and               *)
(* NeighbourLoopI1 its second and third iteration.  s1, s2 are the states  *)
(* the earlier iterations left, computed before the next one runs.         *)
(***************************************************************************)
RECURSIVE findWordsFromCell(_, _, _, _, _, _, _)

\* the neighbour loops with i === 0 || j === 0 skipped
NeighbourDiagonalOnly(f, i, j, st) ==
    LET newRow == f.row + i
        newCol == f.col + j
    IN IF i = 0 \/ j = 0 THEN st
       ELSE IF /\ newRow >= 0 /\ newRow < GRID_SIZE
               /\ newCol >= 0 /\ newCol < GRID_SIZE
               /\ <<newRow, newCol>> \notin st.visited
            THEN findWordsFromCell(f.g, newRow, newCol, f.newWord, f.path,
                                   f.depth, st)
            ELSE st

Neighbour(f, i, j, st) ==
    LET newRow == f.row + i
        newCol == f.col + j
    IN IF i = 0 /\ j = 0 THEN st
       ELSE IF /\ newRow >= 0 /\ newRow < GRID_SIZE
               /\ newCol >= 0 /\ newCol < GRID_SIZE
               /\ <<newRow, newCol>> \notin st.visited
            THEN findWordsFromCell(f.g, newRow, newCol, f.newWord, f.path,
                                   f.depth, st)
            ELSE st

NeighbourRowJ1(f, i, s1, s2) == <<s1, s2, Neighbour(f, i, 1, s2)>>[3]
NeighbourRowJ0(f, i, s1) == NeighbourRowJ1(f, i, s1, Neighbour(f, i, 0, s1))
NeighbourRow(f, i, st) == NeighbourRowJ0(f, i, Neighbour(f, i, -1, st))

NeighbourLoopI1(f, s1, s2) == <<s1, s2, NeighbourRow(f, 1, s2)>>[3]
NeighbourLoopI0(f, s1) == NeighbourLoopI1(f, s1, NeighbourRow(f, 0, s1))
NeighbourLoop(f, st) == NeighbourLoopI0(f, NeighbourRow(f, -1, st))

\* findWordsFromCell without the closing visitedRow[col] = false
findWordsFromCellUnrestored(g, row, col, currentWord, path, depth, st) ==
    IF row < 0 \/ row >= GRID_SIZE \/ col < 0 \/ col >= GRID_SIZE THEN st
    ELSE IF <<row, col>> \in st.visited THEN st
    ELSE LET newWord == Append(currentWord, g[row][col])
             newPath == Append(path, <<row, col>>)
             f == [g |-> g, row |-> row, col |-> col, newWord |-> newWord,
                   path |-> newPath, depth |-> depth]
             add == Len(newWord) >= 3 /\ isValidWord(newWord)
                    /\ newWord \notin Range(st.validWords)
             added ==
                 [visited |-> st.visited \cup {<<row, col>>},
                  validWords |-> IF add THEN Append(st.validWords, newWord)
                                 ELSE st.validWords,
                  paths |-> IF add THEN Append(st.paths, newPath)
                            ELSE st.paths]
         IN IF Len(newWord) >= depth THEN added
            ELSE NeighbourLoop(f, added)

\* findWordsFromCell without visitedRow[col] = true
findWordsFromCellUnmarked(g, row, col, currentWord, path, depth, st) ==
    IF row < 0 \/ row >= GRID_SIZE \/ col < 0 \/ col >= GRID_SIZE THEN st
    ELSE IF <<row, col>> \in st.visited THEN st
    ELSE LET newWord == Append(currentWord, g[row][col])
             newPath == Append(path, <<row, col>>)
             f == [g |-> g, row |-> row, col |-> col, newWord |-> newWord,
                   path |-> newPath, depth |-> depth]
             add == Len(newWord) >= 3 /\ isValidWord(newWord)
                    /\ newWord \notin Range(st.validWords)
             added ==
                 [visited |-> st.visited,
                  validWords |-> IF add THEN Append(st.validWords, newWord)
                                 ELSE st.validWords,
                  paths |-> IF add THEN Append(st.paths, newPath)
                            ELSE st.paths]
         IN [(IF Len(newWord) >= depth THEN added
              ELSE NeighbourLoop(f, added))
             EXCEPT !.visited = @ \ {<<row, col>>}]

findWordsFromCell(g, row, col, currentWord, path, depth, st) ==
    IF row < 0 \/ row >= GRID_SIZE \/ col < 0 \/ col >= GRID_SIZE THEN st
    ELSE IF <<row, col>> \in st.visited THEN st
    ELSE LET newWord == Append(currentWord, g[row][col])
             newPath == Append(path, <<row, col>>)
             f == [g |-> g, row |-> row, col |-> col, newWord |-> newWord,
                   path |-> newPath, depth |-> depth]
             add == Len(newWord) >= 3 /\ isValidWord(newWord)
                    /\ newWord \notin Range(st.validWords)
             added ==
                 [visited |-> st.visited \cup {<<row, col>>},
                  validWords |-> IF add THEN Append(st.validWords, newWord)
                                 ELSE st.validWords,
                  paths |-> IF add THEN Append(st.paths, newPath)
                            ELSE st.paths]
         IN [(IF Len(newWord) >= depth THEN added
              ELSE NeighbourLoop(f, added))
             EXCEPT !.visited = @ \ {<<row, col>>}]

(***************************************************************************)
(* GridGenerator.findValidWords (grid.ts:175-191).  StartCell is the body  *)
(* of the loop over col; StartRow is that loop for one row, with           *)
(* StartRowCol1 .. StartRowCol3 its later iterations; findValidWords is    *)
(* the loop over row, with StartRow1 .. StartRow3 its later iterations.    *)
(***************************************************************************)
StartCell(g, row, col, depth, st) ==
    IF g[row][col] # ""
    THEN findWordsFromCell(g, row, col, <<>>, <<>>, depth, st)
    ELSE st

StartRowCol3(g, row, depth, s1, s2, s3) ==
    <<s1, s2, s3, StartCell(g, row, 3, depth, s3)>>[GRID_SIZE]
StartRowCol2(g, row, depth, s1, s2) ==
    StartRowCol3(g, row, depth, s1, s2, StartCell(g, row, 2, depth, s2))
StartRowCol1(g, row, depth, s1) ==
    StartRowCol2(g, row, depth, s1, StartCell(g, row, 1, depth, s1))
StartRow(g, row, depth, st) ==
    StartRowCol1(g, row, depth, StartCell(g, row, 0, depth, st))

LongestWord(words) ==
    IF words = {} THEN 0
    ELSE CHOOSE n \in {Len(w) : w \in words} : \A w \in words : Len(w) <= n

StartRow3(g, depth, s1, s2, s3) ==
    <<s1, s2, s3, StartRow(g, 3, depth, s3)>>[GRID_SIZE]
StartRow2(g, depth, s1, s2) ==
    StartRow3(g, depth, s1, s2, StartRow(g, 2, depth, s2))
StartRow1(g, depth, s1) == StartRow2(g, depth, s1, StartRow(g, 1, depth, s1))

findValidWords(g) ==
    StartRow1(g, LongestWord(ValueOf(scrabbleWords)),
              StartRow(g, 0, LongestWord(ValueOf(scrabbleWords)),
                       [visited |-> {}, validWords |-> <<>>, paths |-> <<>>]))

FilledWithA == [i \in Idx |-> [j \in Idx |-> "A"]]

(***************************************************************************)
(* Redis keys and expiry (storage.ts:5-13).                                *)
(***************************************************************************)
KEYS ==
    [DAILY_GRID |-> "scrambled:daily:grid",
     DAILY_WORDS |-> "scrambled:daily:words",
     LEADERBOARD |-> "scrambled:leaderboard",
     COMPLETION |-> "scrambled:completion"]

\* GameStorage.getCurrentDateKey (storage.ts:22-25); the model runs within
\* one day
getCurrentDateKey == "todayDate"

\* the users reddit.getCurrentUsername() may return
Usernames == {"player"}

\* updateLeaderboard and getDailyLeaderboard (storage.ts:98-99, 134)
leaderboardKey == KEYS.LEADERBOARD \o ":" \o getCurrentDateKey

userKey(username) == leaderboardKey \o ":" \o username

\* the users that submit scores, and the placeholder user of createPost
\* (post.ts:46)
Submitters == Usernames \cup {"rival"}

RedisKeys ==
    {KEYS.DAILY_GRID, KEYS.DAILY_WORDS, KEYS.LEADERBOARD, KEYS.COMPLETION,
     leaderboardKey} \cup {userKey(u) : u \in Submitters \cup {"system"}}

(***************************************************************************)
(* GameStorage.getDailyGrid and getDailyWords (storage.ts:38-48, 83-87).   *)
(* The grid is stored as the JSON text of {grid, dailyId, date} and the    *)
(* words as the JSON text of Array.from(words); the value kept here is the *)
(* parsed object.  getDailyWords builds a Set from the stored array.       *)
(***************************************************************************)
getDailyGrid ==
    IF redis[KEYS.DAILY_GRID] = Null THEN Null
    ELSE Some(ValueOf(redis[KEYS.DAILY_GRID]))

getDailyWords ==
    IF redis[KEYS.DAILY_WORDS] = Null THEN Null
    ELSE Some(Range(ValueOf(redis[KEYS.DAILY_WORDS])))

(***************************************************************************)
(* DictionaryService.validateWord (dictionary.ts:35-87), after the         *)
(* dictionary is initialized.  words is DictionaryService.scrabbleWords.   *)
(***************************************************************************)
ValidateWordResponse(isValid, score, message) ==
    [isValid |-> isValid, score |-> score, message |-> message]

RECURSIVE PathLoop(_, _, _, _)
\* the bounds test of the path loop off by one
PathLoopOffByOne(path, g, k, pathWord) ==
    IF k > Len(path) THEN [message |-> "", pathWord |-> pathWord]
    ELSE LET row == path[k][1]
             col == path[k][2]
         IN IF row < 0 \/ row >= 3 \/ col < 0 \/ col >= 3
            THEN [message |-> "Invalid path position", pathWord |-> pathWord]
            ELSE IF g[row][col] = ""
            THEN [message |-> "Invalid grid position", pathWord |-> pathWord]
            ELSE PathLoop(path, g, k + 1, Append(pathWord, g[row][col]))

PathLoop(path, g, k, pathWord) ==
    IF k > Len(path) THEN [message |-> "", pathWord |-> pathWord]
    ELSE LET row == path[k][1]
             col == path[k][2]
         IN IF row < 0 \/ row >= 4 \/ col < 0 \/ col >= 4
            THEN [message |-> "Invalid path position", pathWord |-> pathWord]
            ELSE IF g[row][col] = ""
            THEN [message |-> "Invalid grid position", pathWord |-> pathWord]
            ELSE PathLoop(path, g, k + 1, Append(pathWord, g[row][col]))

\* validateWord without the length bonus
validateWordBaseOnly(word, path, words) ==
    LET upperWord == toUpperCase(trim(word))
        storedGrid == getDailyGrid
        storedWords == getDailyWords
    IN IF Len(upperWord) < 3
       THEN ValidateWordResponse(FALSE, 0, "Word must be at least 3 letters long")
       ELSE IF upperWord \notin words
       THEN ValidateWordResponse(FALSE, 0, "Not a valid word")
       ELSE IF storedGrid = Null
       THEN ValidateWordResponse(FALSE, 0, "Daily puzzle not available")
       ELSE IF storedWords = Null
       THEN ValidateWordResponse(FALSE, 0, "Daily puzzle not available")
       ELSE IF upperWord \notin ValueOf(storedWords)
       THEN ValidateWordResponse(FALSE, 0, "Word not possible in current grid")
       ELSE LET p == PathLoop(path, ValueOf(storedGrid).grid, 1, <<>>)
            IN IF p.message # ""
               THEN ValidateWordResponse(FALSE, 0, p.message)
               ELSE IF toUpperCase(p.pathWord) # upperWord
               THEN ValidateWordResponse(FALSE, 0, "Path does not match word")
               ELSE LET basePoints == 10
                        lengthBonus ==
                            (IF Len(upperWord) - 3 > 0
                             THEN Len(upperWord) - 3 ELSE 0) * 5
                    IN ValidateWordResponse(TRUE, basePoints, "Valid word!")

\* validateWord without the comparison of pathWord with upperWord
validateWordUnmatched(word, path, words) ==
    LET upperWord == toUpperCase(trim(word))
        storedGrid == getDailyGrid
        storedWords == getDailyWords
    IN IF Len(upperWord) < 3
       THEN ValidateWordResponse(FALSE, 0, "Word must be at least 3 letters long")
       ELSE IF upperWord \notin words
       THEN ValidateWordResponse(FALSE, 0, "Not a valid word")
       ELSE IF storedGrid = Null
       THEN ValidateWordResponse(FALSE, 0, "Daily puzzle not available")
       ELSE IF storedWords = Null
       THEN ValidateWordResponse(FALSE, 0, "Daily puzzle not available")
       ELSE IF upperWord \notin ValueOf(storedWords)
       THEN ValidateWordResponse(FALSE, 0, "Word not possible in current grid")
       ELSE LET p == PathLoop(path, ValueOf(storedGrid).grid, 1, <<>>)
            IN IF p.message # ""
               THEN ValidateWordResponse(FALSE, 0, p.message)
               ELSE LET basePoints == 10
                        lengthBonus ==
                            (IF Len(upperWord) - 3 > 0
                             THEN Len(upperWord) - 3 ELSE 0) * 5
                    IN ValidateWordResponse(TRUE, basePoints + lengthBonus,
                                            "Valid word!")

validateWord(word, path, words) ==
    LET upperWord == toUpperCase(trim(word))
        storedGrid == getDailyGrid
        storedWords == getDailyWords
    IN IF Len(upperWord) < 3
       THEN ValidateWordResponse(FALSE, 0, "Word must be at least 3 letters long")
       ELSE IF upperWord \notin words
       THEN ValidateWordResponse(FALSE, 0, "Not a valid word")
       ELSE IF storedGrid = Null
       THEN ValidateWordResponse(FALSE, 0, "Daily puzzle not available")
       ELSE IF storedWords = Null
       THEN ValidateWordResponse(FALSE, 0, "Daily puzzle not available")
       ELSE IF upperWord \notin ValueOf(storedWords)
       THEN ValidateWordResponse(FALSE, 0, "Word not possible in current grid")
       ELSE LET p == PathLoop(path, ValueOf(storedGrid).grid, 1, <<>>)
            IN IF p.message # ""
               THEN ValidateWordResponse(FALSE, 0, p.message)
               ELSE IF toUpperCase(p.pathWord) # upperWord
               THEN ValidateWordResponse(FALSE, 0, "Path does not match word")
               ELSE LET basePoints == 10
                        lengthBonus ==
                            (IF Len(upperWord) - 3 > 0
                             THEN Len(upperWord) - 3 ELSE 0) * 5
                    IN ValidateWordResponse(TRUE, basePoints + lengthBonus,
                                            "Valid word!")

(***************************************************************************)
(* Word lists: the lines of data/scrabble.txt.  The file is not part of    *)
(* the sources; these are the lists the model reads.  Lines come in mixed  *)
(* case and with surrounding blanks, and with the empty last line that a   *)
(* final newline leaves.                                                   *)
(***************************************************************************)
KeepLines(file) == {line \in file : Len(trim(line)) <= MaxWordLen}

FileRich ==
    KeepLines({
      <<"A","B","A">>, <<"b","a","a">>, <<"B","A","S">>,
      <<"S","A","B"," ">>, <<"A","B","S">>, <<" ","B","a","r">>,
      <<"B","A","L">>, <<"L","A","B">>, <<"a","l","b">>,
      <<"A","R","B">>, <<"B","R","A"," ">>, <<"B","A","N">>,
      <<" ","N","a","b">>, <<"B","E","L">>, <<"R","A","S">>,
      <<"e","b","b">>, <<"A","R","S">>, <<"S","R","I"," ">>,
      <<"L","E","A">>, <<" ","A","l","a">>, <<"A","L","E">>,
      <<"R","I","A">>, <<"s","e","n">>, <<"R","A","N">>,
      <<"S","I","R"," ">>, <<"E","R","S">>, <<" ","B","i","s">>,
      <<"S","I","B">>, <<"I","N","S">>, <<"c","a","b">>,
      <<"B","A","D">>, <<"D","A","B"," ">>, <<"S","E","A">>,
      <<" ","A","n","a">>, <<"B","E","N">>, <<"L","A","S">>,
      <<"r","i","b">>, <<"S","A","E">>, <<"S","A","L"," ">>,
      <<"R","E","S">>, <<"A","B">>, <<"B","A">>, <<>>})

FileScenario ==
    KeepLines({<<"C","A","T">>, <<"c","a","t","s"," ">>, <<"A","C","T">>,
               <<"A","T">>, <<"t","a","t">>, <<"S","C","A","T","T">>, <<>>})

\* a list with words of three, four and five letters
FileScore ==
    KeepLines({
      <<"C","A","T">>, <<"c","a","t","s"," ">>, <<"C","A","B">>,
      <<" ","c","a","b","s">>, <<"S","A","B">>, <<"B","A","T">>,
      <<"b","a","t","s">>, <<"T","A","B"," ">>, <<"A","B","S">>,
      <<"S","A","T">>, <<"S","C","A","T">>, <<"c","a","s","t">>,
      <<"S","C","A","T","S">>, <<" ","S","t","a","b","s">>,
      <<"B","A","S","T","A">>, <<"A","T">>, <<>>})

WordFiles == {FileRich}

Tapes == [0..(TapeLen - 1) -> 0..(RandDen - 1)]

\* JavaScript runs one synchronous stretch of code at a time: another
\* handler or continuation runs only while generateDailyPuzzle is not
\* running or is suspended at an await.
AwaitPoints == {"idle", "reset", "store", "done", "error"}

NoWriters ==[grid |-> "idle", words |-> "idle"]

EmptyRedis == [k \in RedisKeys |-> Null]

\* the client addresses express reports as req.ip (index.ts:46)
Ips == {"10.0.0.1"}

\* const rateLimits = new Map<string, RateInfo>() (index.ts:42)
EmptyRateLimits == [ip \in Ips |-> Null]

NonePassed == [ip \in Ips |-> <<>>]

(***************************************************************************)
(* The server after construction: nothing loaded, nothing stored.          *)
(***************************************************************************)
Init ==
    /\ randomTape \in Tapes
    /\ randomPos = 0
    /\ scrabbleData \in WordFiles
    /\ scrabbleWords = Undefined
    /\ dictionary = [initialized |-> FALSE, scrabbleWords |-> Undefined]
    /\ calls = 0
    /\ pc = "idle"
    /\ letters = <<>>
    /\ grid = FilledWithA
    /\ attempts = 0
    /\ validWords = <<>>
    /\ foundPaths = <<>>
    /\ rejects = 0
    /\ writers = NoWriters
    /\ redis = EmptyRedis
    /\ redisTtl = {}
    /\ request = Null
    /\ response = Null
    /\ storedBefore = [grid |-> Null, words |-> Null]
    /\ readable = TRUE
    /\ initResult = Null
    /\ submits = <<>>
    /\ post = "idle"
    /\ second = Null
    /\ rateLimits = EmptyRateLimits
    /\ now = 0
    /\ passed = NonePassed
    /\ gameBoard = Null
    /\ choice = Null

(***************************************************************************)
(* GridGenerator.initialize (grid.ts:29-38), called by initializeServices. *)
(***************************************************************************)
InitializeResolved == Some("resolved")

InitializeFailed == Some("Error: Dictionary initialization failed")

\* GridGenerator.initialize installing a built-in list when the file cannot
\* be read
GridGeneratorInitializeWithSubstitute ==
    /\ pc \in {"idle", "done", "error"}
    /\ scrabbleWords = Undefined
    /\ scrabbleWords' = Some(LoadWordSet(IF readable THEN scrabbleData
                                         ELSE FileRich))
    /\ initResult' = InitializeResolved
    /\ UNCHANGED <<randomTape, randomPos, scrabbleData, dictionary, calls, pc,
                   letters, grid, attempts, validWords, foundPaths, rejects,
                   writers, redis, redisTtl, request, response,
                   storedBefore, choice, readable,
                   submits, post, second, rateLimits, now, passed,
                   gameBoard>>

GridGeneratorInitialize ==
    /\ pc \in {"idle", "done", "error"}
    /\ scrabbleWords = Undefined
    /\ IF readable
       THEN /\ scrabbleWords' = Some(LoadWordSet(scrabbleData))
            /\ initResult' = InitializeResolved
       ELSE /\ scrabbleWords' = scrabbleWords
            /\ initResult' = InitializeFailed
    /\ UNCHANGED <<randomTape, randomPos, scrabbleData, dictionary, calls, pc,
                   letters, grid, attempts, validWords, foundPaths, rejects,
                   writers, redis, redisTtl, request, response,
                   storedBefore, choice, readable,
                   submits, post, second, rateLimits, now, passed,
                   gameBoard>>

(***************************************************************************)
(* DictionaryService.initialize (dictionary.ts:13-23), called at server    *)
(* start (index.ts:279-282) and by initializeServices; a later call finds  *)
(* the dictionary loaded by validateWord, with the same words.             *)
(***************************************************************************)
DictionaryServiceInitialize ==
    /\ pc = "idle"
    /\ ~dictionary.initialized
    /\ IF readable
       THEN /\ dictionary' = [initialized |-> TRUE,
                              scrabbleWords |-> Some(LoadWordSet(scrabbleData))]
            /\ initResult' = InitializeResolved
       ELSE /\ dictionary' = dictionary
            /\ initResult' = InitializeFailed
    /\ UNCHANGED <<randomTape, randomPos, scrabbleData, scrabbleWords, calls,
                   pc, letters, grid, attempts, validWords, foundPaths,
                   rejects, writers, redis, redisTtl, request, response,
                   storedBefore, choice, readable,
                   submits, post, second, rateLimits, now, passed,
                   gameBoard>>

(***************************************************************************)
(* A caller invokes GridGenerator.generateDailyPuzzle (index.ts:241, 281;  *)
(* post.ts:15).  One call runs at a time here.                              *)
(***************************************************************************)
CallGenerateDailyPuzzle ==
    /\ pc \in {"idle", "done", "error"}
    /\ calls < MaxCalls
    /\ request = Null
    /\ calls' = calls + 1
    /\ rejects' = 0
    /\ pc' = "generate"
    /\ response' = Null
    /\ storedBefore' = [grid |-> redis[KEYS.DAILY_GRID],
                        words |-> redis[KEYS.DAILY_WORDS]]
    /\ UNCHANGED <<randomTape, randomPos, scrabbleData, scrabbleWords,
                   dictionary, letters, grid, attempts, validWords, foundPaths,
                   writers, redis, redisTtl, request, choice, readable,
                   initResult,
                   submits, post, second, rateLimits, now, passed,
                   gameBoard>>

(***************************************************************************)
(* generateGrid (grid.ts:40-52) up to the call of placeLettersInGrid.      *)
(***************************************************************************)
GenerateGrid ==
    /\ pc = "generate"
    /\ LET s == generateBalancedLetterSet(randomPos)
       IN /\ letters' = s.letters
          /\ randomPos' = s.pos % TapeLen
    /\ grid' = FilledWithA
    /\ attempts' = 0
    /\ pc' = "place"
    /\ UNCHANGED <<randomTape, scrabbleData, scrabbleWords, dictionary, calls,
                   validWords, foundPaths, rejects, writers, redis, redisTtl,
                   request, response,
                   storedBefore, choice, readable,
                   initResult,
                   submits, post, second, rateLimits, now, passed,
                   gameBoard>>

(***************************************************************************)
(* One iteration of the do-while of placeLettersInGrid (grid.ts:101-133).  *)
(***************************************************************************)
PlaceAttempt ==
    /\ pc = "place"
    /\ LET s == shuffleArray(letters, randomPos)
           p == PlacementLoop(s.array, grid, 0)
       IN /\ letters' = s.array
          /\ randomPos' = s.pos % TapeLen
          /\ attempts' = attempts + 1
          /\ grid' = IF p.validPlacement THEN p.grid ELSE FilledWithA
          /\ pc' = IF p.validPlacement \/ attempts + 1 >= maxAttempts
                   THEN "placed" ELSE "place"
    /\ UNCHANGED <<randomTape, scrabbleData, scrabbleWords, dictionary, calls,
                   validWords, foundPaths, rejects, writers, redis, redisTtl,
                   request, response,
                   storedBefore, choice, readable,
                   initResult,
                   submits, post, second, rateLimits, now, passed,
                   gameBoard>>

(***************************************************************************)
(* After the loop (grid.ts:135-140): a frame that used all its attempts    *)
(* samples new letters and calls itself; any other frame returns, and with *)
(* it every frame that called it.                                          *)
(***************************************************************************)
PlaceRecurse ==
    /\ pc = "placed"
    /\ attempts >= maxAttempts
    /\ LET s == generateBalancedLetterSet(randomPos)
       IN /\ letters' = s.letters
          /\ randomPos' = s.pos % TapeLen
    /\ attempts' = 0
    /\ pc' = "place"
    /\ UNCHANGED <<randomTape, scrabbleData, scrabbleWords, dictionary, calls,
                   grid, validWords, foundPaths, rejects, writers, redis,
                   redisTtl, request, response,
                   storedBefore, choice, readable,
                   initResult,
                   submits, post, second, rateLimits, now, passed,
                   gameBoard>>

\* placeLettersInGrid returning after the loop whatever attempts is
PlaceReturnWithoutRetry ==
    /\ pc = "placed"
    /\ pc' = "generated"
    /\ UNCHANGED <<randomTape, randomPos, scrabbleData, scrabbleWords,
                   dictionary, calls, letters, grid, attempts, validWords,
                   foundPaths, rejects, writers, redis, redisTtl, request,
                   response,
                   storedBefore, choice, readable,
                   initResult,
                   submits, post, second, rateLimits, now, passed,
                   gameBoard>>

PlaceReturn ==
    /\ pc = "placed"
    /\ attempts < maxAttempts
    /\ pc' = "generated"
    /\ UNCHANGED <<randomTape, randomPos, scrabbleData, scrabbleWords,
                   dictionary, calls, letters, grid, attempts, validWords,
                   foundPaths, rejects, writers, redis, redisTtl, request,
                   response,
                   storedBefore, choice, readable,
                   initResult,
                   submits, post, second, rateLimits, now, passed,
                   gameBoard>>

(***************************************************************************)
(* generateDailyPuzzle (grid.ts:198-199): the search of the generated      *)
(* grid.  With scrabbleWords undefined the first isValidWord call throws   *)
(* a TypeError and the call fails.                                         *)
(***************************************************************************)
FindValidWords ==
    /\ pc = "generated"
    /\ IF scrabbleWords = Undefined
       THEN /\ pc' = "error"
            /\ UNCHANGED <<validWords, foundPaths,
                   storedBefore, choice, readable,
                   initResult,
                   submits, post, second, rateLimits, now, passed,
                   gameBoard>>
       ELSE LET st == findValidWords(grid)
            IN /\ validWords' = st.validWords
               /\ foundPaths' = st.paths
               /\ pc' = "searched"
    /\ UNCHANGED <<randomTape, randomPos, scrabbleData, scrabbleWords,
                   dictionary, calls, letters, grid, attempts, rejects,
                   writers, redis, redisTtl, request, response,
                   storedBefore, choice, readable,
                   initResult,
                   submits, post, second, rateLimits, now, passed,
                   gameBoard>>

(***************************************************************************)
(* generateDailyPuzzle (grid.ts:201-204): too few words, the function      *)
(* calls itself.                                                           *)
(***************************************************************************)
Regenerate ==
    /\ pc = "searched"
    /\ Len(validWords) < MIN_WORD_COUNT
    /\ rejects < MaxRejects
    /\ rejects' = rejects + 1
    /\ pc' = "generate"
    /\ UNCHANGED <<randomTape, randomPos, scrabbleData, scrabbleWords,
                   dictionary, calls, letters, grid, attempts, validWords,
                   foundPaths, writers, redis, redisTtl, request, response,
                   storedBefore, choice, readable,
                   initResult,
                   submits, post, second, rateLimits, now, passed,
                   gameBoard>>

(***************************************************************************)
(* generateDailyPuzzle (grid.ts:206-218): the grid is accepted and         *)
(* GameStorage.resetDailyData (storage.ts:200-207) deletes the four keys.  *)
(***************************************************************************)
\* the accept test off by one: validWords.size < 9 regenerates
AcceptNineWords ==
    /\ pc = "searched"
    /\ Len(validWords) >= MIN_WORD_COUNT - 1
    /\ pc' = "reset"
    /\ UNCHANGED <<randomTape, randomPos, scrabbleData, scrabbleWords,
                   dictionary, calls, letters, grid, attempts, validWords,
                   foundPaths, rejects, writers, redis, redisTtl, request,
                   response,
                   storedBefore, choice, readable,
                   initResult,
                   submits, post, second, rateLimits, now, passed,
                   gameBoard>>

Accept ==
    /\ pc = "searched"
    /\ Len(validWords) >= MIN_WORD_COUNT
    /\ pc' = "reset"
    /\ UNCHANGED <<randomTape, randomPos, scrabbleData, scrabbleWords,
                   dictionary, calls, letters, grid, attempts, validWords,
                   foundPaths, rejects, writers, redis, redisTtl, request,
                   response,
                   storedBefore, choice, readable,
                   initResult,
                   submits, post, second, rateLimits, now, passed,
                   gameBoard>>

ResetDailyData ==
    /\ pc = "reset"
    /\ redis' = [k \in RedisKeys |->
                    IF k \in {KEYS.DAILY_GRID, KEYS.DAILY_WORDS,
                              KEYS.LEADERBOARD, KEYS.COMPLETION}
                    THEN Null ELSE redis[k]]
    /\ redisTtl' = redisTtl \ {KEYS.DAILY_GRID, KEYS.DAILY_WORDS,
                                KEYS.LEADERBOARD, KEYS.COMPLETION}
    /\ writers' = [grid |-> "set", words |-> "set"]
    /\ pc' = "store"
    /\ UNCHANGED <<randomTape, randomPos, scrabbleData, scrabbleWords,
                   dictionary, calls, letters, grid, attempts, validWords,
                   foundPaths, rejects, request, response,
                   storedBefore, choice, readable,
                   initResult,
                   submits, post, second, rateLimits, now, passed,
                   gameBoard>>

(***************************************************************************)
(* GameStorage.setDailyGrid (storage.ts:29-33) and setDailyWords           *)
(* (storage.ts:74-78), started together by Promise.all (grid.ts:219-222):  *)
(* each is a SET, which drops the expiry of the key, then an EXPIRE.       *)
(***************************************************************************)
SetDailyGridSet ==
    /\ pc = "store" /\ writers.grid = "set"
    /\ redis' = [redis EXCEPT ![KEYS.DAILY_GRID] =
                    Some([grid |-> grid, dailyId |-> "todayDate",
                          date |-> "todayDate"])]
    /\ redisTtl' = redisTtl \ {KEYS.DAILY_GRID}
    /\ writers' = [writers EXCEPT !.grid = "expire"]
    /\ UNCHANGED <<randomTape, randomPos, scrabbleData, scrabbleWords,
                   dictionary, calls, pc, letters, grid, attempts, validWords,
                   foundPaths, rejects, request, response,
                   storedBefore, choice, readable,
                   initResult,
                   submits, post, second, rateLimits, now, passed,
                   gameBoard>>

SetDailyGridExpire ==
    /\ pc = "store" /\ writers.grid = "expire"
    /\ redisTtl' = IF redis[KEYS.DAILY_GRID] # Null
                   THEN redisTtl \cup {KEYS.DAILY_GRID} ELSE redisTtl
    /\ writers' = [writers EXCEPT !.grid = "done"]
    /\ UNCHANGED <<randomTape, randomPos, scrabbleData, scrabbleWords,
                   dictionary, calls, pc, letters, grid, attempts, validWords,
                   foundPaths, rejects, redis, request, response,
                   storedBefore, choice, readable,
                   initResult,
                   submits, post, second, rateLimits, now, passed,
                   gameBoard>>

SetDailyWordsSet ==
    /\ pc = "store" /\ writers.words = "set"
    /\ redis' = [redis EXCEPT ![KEYS.DAILY_WORDS] = Some(validWords)]
    /\ redisTtl' = redisTtl \ {KEYS.DAILY_WORDS}
    /\ writers' = [writers EXCEPT !.words = "expire"]
    /\ UNCHANGED <<randomTape, randomPos, scrabbleData, scrabbleWords,
                   dictionary, calls, pc, letters, grid, attempts, validWords,
                   foundPaths, rejects, request, response,
                   storedBefore, choice, readable,
                   initResult,
                   submits, post, second, rateLimits, now, passed,
                   gameBoard>>

SetDailyWordsExpire ==
    /\ pc = "store" /\ writers.words = "expire"
    /\ redisTtl' = IF redis[KEYS.DAILY_WORDS] # Null
                   THEN redisTtl \cup {KEYS.DAILY_WORDS} ELSE redisTtl
    /\ writers' = [writers EXCEPT !.words = "done"]
    /\ UNCHANGED <<randomTape, randomPos, scrabbleData, scrabbleWords,
                   dictionary, calls, pc, letters, grid, attempts, validWords,
                   foundPaths, rejects, redis, request, response,
                   storedBefore, choice, readable,
                   initResult,
                   submits, post, second, rateLimits, now, passed,
                   gameBoard>>

\* generateDailyPuzzle returning as soon as setDailyGrid is through
PuzzleStoredAfterGrid ==
    /\ pc = "store" /\ writers.grid = "done"
    /\ writers' = NoWriters
    /\ pc' = "done"
    /\ UNCHANGED <<randomTape, randomPos, scrabbleData, scrabbleWords,
                   dictionary, calls, letters, grid, attempts, validWords,
                   foundPaths, rejects, redis, redisTtl, request, response,
                   storedBefore, choice, readable,
                   initResult,
                   submits, post, second, rateLimits, now, passed,
                   gameBoard>>

\* Promise.all resolves and generateDailyPuzzle returns (grid.ts:219-223)
PuzzleStored ==
    /\ pc = "store" /\ writers.grid = "done" /\ writers.words = "done"
    /\ writers' = NoWriters
    /\ pc' = "done"
    /\ UNCHANGED <<randomTape, randomPos, scrabbleData, scrabbleWords,
                   dictionary, calls, letters, grid, attempts, validWords,
                   foundPaths, rejects, redis, redisTtl, request, response,
                   storedBefore, choice, readable,
                   initResult,
                   submits, post, second, rateLimits, now, passed,
                   gameBoard>>

(***************************************************************************)
(* A client submits a word of the puzzle just stored together with the     *)
(* path along which the search found it.                                   *)
(***************************************************************************)
SubmitDiscovered(k) ==
    /\ pc = "done"
    /\ request = Null /\ response = Null
    /\ request' = Some([word |-> validWords[k], path |-> foundPaths[k]])
    /\ UNCHANGED <<randomTape, randomPos, scrabbleData, scrabbleWords,
                   dictionary, calls, pc, letters, grid, attempts, validWords,
                   foundPaths, rejects, writers, redis, redisTtl, response,
                   storedBefore, choice, readable,
                   initResult,
                   submits, post, second, rateLimits, now, passed,
                   gameBoard>>

(***************************************************************************)
(* POST /api/validate-word (index.ts:112-139) with                         *)
(* DictionaryService.validateWord (dictionary.ts:29-88): a request without *)
(* a word is answered 400; validateWord initializes the dictionary when    *)
(* that has not happened yet.                                              *)
(***************************************************************************)
\* validateWord not waiting for initialize: the first call looks the word up
\* in a dictionary that is still empty
HandleValidateWordUnloaded ==
    /\ pc \in AwaitPoints
    /\ request # Null
    /\ LET req == ValueOf(request)
           words == IF dictionary.initialized
                    THEN ValueOf(dictionary.scrabbleWords)
                    ELSE {}
       IN /\ response' =
                IF Len(req.word) = 0
                THEN Some([request |-> req, status |-> 400,
                           body |-> ValidateWordResponse(FALSE, 0,
                                                         "INVALID_REQUEST")])
                ELSE Some([request |-> req, status |-> 200,
                           body |-> validateWord(req.word, req.path, words)])
          /\ dictionary' =
                IF Len(req.word) = 0 THEN dictionary
                ELSE [initialized |-> TRUE,
                      scrabbleWords |-> Some(LoadWordSet(scrabbleData))]
    /\ request' = Null
    /\ UNCHANGED <<randomTape, randomPos, scrabbleData, scrabbleWords, calls,
                   pc, letters, grid, attempts, validWords, foundPaths,
                   rejects, writers, redis, redisTtl,
                   storedBefore, choice, readable,
                   initResult,
                   submits, post, second, rateLimits, now, passed,
                   gameBoard>>

HandleValidateWord ==
    /\ pc \in AwaitPoints
    /\ request # Null
    /\ LET req == ValueOf(request)
           words == IF dictionary.initialized
                    THEN ValueOf(dictionary.scrabbleWords)
                    ELSE LoadWordSet(scrabbleData)
       IN IF Len(req.word) = 0
          THEN /\ response' =
                     Some([request |-> req, status |-> 400,
                           body |-> ValidateWordResponse(FALSE, 0,
                                                         "INVALID_REQUEST")])
               /\ UNCHANGED <<dictionary, initResult>>
          ELSE IF ~dictionary.initialized /\ ~readable
          THEN /\ response' =
                     Some([request |-> req, status |-> 500,
                           body |-> ValidateWordResponse(FALSE, 0,
                                                         "VALIDATION_ERROR")])
               /\ initResult' = InitializeFailed
               /\ UNCHANGED dictionary
          ELSE /\ response' =
                     Some([request |-> req, status |-> 200,
                           body |-> validateWord(req.word, req.path, words)])
               /\ dictionary' =
                     [initialized |-> TRUE, scrabbleWords |-> Some(words)]
               /\ initResult' = IF dictionary.initialized THEN initResult
                                ELSE InitializeResolved
    /\ request' = Null
    /\ UNCHANGED <<randomTape, randomPos, scrabbleData, scrabbleWords, calls,
                   pc, letters, grid, attempts, validWords, foundPaths,
                   rejects, writers, redis, redisTtl,
                   storedBefore, choice, readable,
                   submits, post, second, rateLimits, now, passed,
                   gameBoard>>

Next ==
    \/ GridGeneratorInitialize
    \/ DictionaryServiceInitialize
    \/ CallGenerateDailyPuzzle
    \/ GenerateGrid
    \/ PlaceAttempt
    \/ PlaceRecurse
    \/ PlaceReturn
    \/ FindValidWords
    \/ Regenerate
    \/ Accept
    \/ ResetDailyData
    \/ SetDailyGridSet
    \/ SetDailyGridExpire
    \/ SetDailyWordsSet
    \/ SetDailyWordsExpire
    \/ PuzzleStored
    \/ \E k \in 1..Len(validWords) : SubmitDiscovered(k)
    \/ HandleValidateWord

Spec == Init /\ [][Next]_vars

(***************************************************************************)
(* The server with clients that submit what they like to                   *)
(* POST /api/validate-word (index.ts:112-139): the request body carries a  *)
(* word and a path chosen by the client.  The client knows the grid and    *)
(* the words found in it.  It sends a word of the puzzle with the path     *)
(* that discovered it, with a prefix of that path (the empty path among    *)
(* them), with that path where one position is replaced by another cell    *)
(* carrying the same letter, by the first cell of the grid or by a         *)
(* position outside the grid, or with the path of the next word; or it     *)
(* sends the word in lower case or with a blank before or after it,        *)
(* together with the path that discovered it, the empty path or the path   *)
(* of the next word.                                                       *)
(***************************************************************************)
toLowerCase(str) ==
    [k \in 1..Len(str) |->
        IF \E n \in 1..26 : UpperCaseLetters[n] = str[k]
        THEN LowerCaseLetters[CHOOSE n \in 1..26 : UpperCaseLetters[n] = str[k]]
        ELSE str[k]]

OutsidePositions == {<<0, GRID_SIZE>>, <<-1, 0>>}

SubmittedPaths(k) ==
    LET path == foundPaths[k]
    IN {SubSeq(path, 1, n) : n \in 0..Len(path)}
       \cup UNION {{[path EXCEPT ![n] = c] :
                       c \in {d \in Idx \X Idx :
                                 grid[d[1]][d[2]] = grid[path[n][1]][path[n][2]]}
                             \cup {<<0, 0>>} \cup OutsidePositions} :
                    n \in 1..Len(path)}
       \cup {foundPaths[(k % Len(foundPaths)) + 1]}

Submissions(k) ==
    {[word |-> validWords[k], path |-> path] : path \in SubmittedPaths(k)}
    \cup {[word |-> word, path |-> path] :
              word \in {toLowerCase(validWords[k]), Append(validWords[k], " "),
                        <<" ">> \o validWords[k]},
              path \in {foundPaths[k], <<>>,
                        foundPaths[(k % Len(foundPaths)) + 1]}}

SubmitWord(k) ==
    /\ pc = "done"
    /\ request = Null /\ response = Null
    /\ \E body \in Submissions(k) : request' = Some(body)
    /\ UNCHANGED <<randomTape, randomPos, scrabbleData, scrabbleWords,
                   dictionary, calls, pc, letters, grid, attempts, validWords,
                   foundPaths, rejects, writers, redis, redisTtl, response,
                   storedBefore, choice, readable,
                   initResult,
                   submits, post, second, rateLimits, now, passed,
                   gameBoard>>

NextPlay ==
    \/ Next
    \/ \E k \in 1..Len(validWords) : SubmitWord(k)

SpecPlay == Init /\ [][NextPlay]_vars

(***************************************************************************)
(* The server with players who submit scores.  GameStorage                 *)
(* .updateLeaderboard (storage.ts:92-123): the user's hash is written when *)
(* it holds no score or a smaller one (the timestamp field is left out),   *)
(* the member is added to the sorted set with the score, and both keys get *)
(* the expiry.  board is the sorted set as a function from member to       *)
(* score.                                                                  *)
(***************************************************************************)
updateLeaderboard(store, username, score, foundWords, timeElapsed) ==
    LET currentScore == store[userKey(username)]
        hashed ==
            IF currentScore = Null \/ ValueOf(currentScore).score < score
            THEN [store EXCEPT ![userKey(username)] =
                     Some([score |-> score, foundWords |-> foundWords,
                           timeElapsed |-> timeElapsed])]
            ELSE store
        board == IF hashed[leaderboardKey] = Null THEN <<>>
                 ELSE ValueOf(hashed[leaderboardKey])
    IN [hashed EXCEPT ![leaderboardKey] =
           Some([m \in DOMAIN board \cup {username} |->
                    IF m = username THEN score ELSE board[m]])]

\* GameStorage.isGameCompleted (storage.ts:189-195)
isGameCompleted ==
    [completed |-> redis[KEYS.COMPLETION] # Null,
     winner |-> redis[KEYS.COMPLETION]]

(***************************************************************************)
(* POST /api/submit-score (index.ts:141-210) by a logged-in player while   *)
(* no generation runs: the first n words of the puzzle, 10 points each,    *)
(* 30 seconds.  The handler is answered without a change of state when the *)
(* game is completed, when no words are stored or when a word is not one   *)
(* of the stored words; else the leaderboard is updated and, with all the  *)
(* words found, GameStorage.markGameCompleted (storage.ts:182-184) sets    *)
(* the completion key.                                                     *)
(***************************************************************************)
SubmitScore(username, n) ==
    /\ pc = "done"
    /\ request = Null
    /\ LET words == SubSeq(validWords, 1, n)
           score == 10 * n
           stored == getDailyWords
       IN /\ ~isGameCompleted.completed
          /\ stored # Null
          /\ \A k \in 1..Len(words) : toUpperCase(words[k]) \in ValueOf(stored)
          /\ LET updated == updateLeaderboard(redis, username, score, words, 30)
             IN redis' =
                   IF Len(words) = Cardinality(ValueOf(stored))
                   THEN [updated EXCEPT ![KEYS.COMPLETION] = Some(username)]
                   ELSE updated
          /\ redisTtl' =
                 (redisTtl \cup {leaderboardKey, userKey(username)})
                 \ (IF Len(words) = Cardinality(ValueOf(stored))
                    THEN {KEYS.COMPLETION} ELSE {})
    /\ UNCHANGED <<randomTape, randomPos, scrabbleData, scrabbleWords,
                   dictionary, calls, pc, letters, grid, attempts, validWords,
                   foundPaths, rejects, writers, request, response,
                   storedBefore, choice, readable,
                   initResult,
                   submits, post, second, rateLimits, now, passed,
                   gameBoard>>

NextBoard ==
    \/ Next
    \/ \E username \in Usernames, n \in {1, 2, Len(validWords)} :
          SubmitScore(username, n)

SpecBoard == Init /\ [][NextBoard]_vars

(***************************************************************************)
(* The server with a store that can fail and a process that can be         *)
(* started again.  StorageFails: a redis call of resetDailyData            *)
(* (storage.ts:200-207), before any key is deleted, or of setDailyGrid or  *)
(* setDailyWords (storage.ts:29-33, 74-78) rejects, as do the calls still  *)
(* outstanding; the await in generateDailyPuzzle (grid.ts:218-222) throws  *)
(* and the call fails.  ServerRestart: the process ends and index.ts runs  *)
(* again; the statics of GridGenerator and DictionaryService are gone, the *)
(* store keeps what it held.                                               *)
(***************************************************************************)
StorageFails ==
    /\ pc \in {"reset", "store"}
    /\ pc' = "error"
    /\ writers' = NoWriters
    /\ UNCHANGED <<randomTape, randomPos, scrabbleData, scrabbleWords,
                   dictionary, calls, letters, grid, attempts, validWords,
                   foundPaths, rejects, redis, redisTtl, request, response,
                   storedBefore, choice, readable,
                   initResult,
                   submits, post, second, rateLimits, now, passed,
                   gameBoard>>

ServerRestart ==
    /\ pc \in {"done", "error"}
    /\ calls < MaxCalls
    /\ scrabbleWords # Undefined \/ dictionary.initialized
    /\ scrabbleWords' = Undefined
    /\ dictionary' = [initialized |-> FALSE, scrabbleWords |-> Undefined]
    /\ pc' = "idle"
    /\ request' = Null
    /\ response' = Null
    /\ initResult' = Null
    /\ UNCHANGED <<randomTape, randomPos, scrabbleData, calls, letters, grid,
                   attempts, validWords, foundPaths, rejects, writers, redis,
                   redisTtl, storedBefore, choice, readable,
                   submits, post, second, rateLimits, now, passed,
                   gameBoard>>

NextFail ==
    \/ Next
    \/ StorageFails
    \/ ServerRestart

SpecFail == Init /\ [][NextFail]_vars

(***************************************************************************)
(* The server deployed again with another word list while the store keeps  *)
(* the puzzle.  ServerRedeploy: the process ends and index.ts runs again   *)
(* with a new data/scrabble.txt.  SubmitStoredWord: after that, a client   *)
(* still playing the stored puzzle sends one of its words with the path    *)
(* that spells it to POST /api/validate-word (index.ts:112-139).           *)
(***************************************************************************)
RedeployedFile == FileScenario

ServerRedeploy ==
    /\ pc = "done"
    /\ scrabbleData # RedeployedFile
    /\ scrabbleData' = RedeployedFile
    /\ scrabbleWords' = Undefined
    /\ dictionary' = [initialized |-> FALSE, scrabbleWords |-> Undefined]
    /\ pc' = "idle"
    /\ request' = Null
    /\ response' = Null
    /\ initResult' = Null
    /\ UNCHANGED <<randomTape, randomPos, calls, letters, grid, attempts,
                   validWords, foundPaths, rejects, writers, redis, redisTtl,
                   storedBefore, choice, readable,
                   submits, post, second, rateLimits, now, passed,
                   gameBoard>>

SubmitStoredWord(k) ==
    /\ pc = "idle"
    /\ request = Null /\ response = Null
    /\ redis[KEYS.DAILY_WORDS] = Some(validWords)
    /\ redis[KEYS.DAILY_GRID] # Null
    /\ ValueOf(redis[KEYS.DAILY_GRID]).grid = grid
    /\ request' = Some([word |-> validWords[k], path |-> foundPaths[k]])
    /\ UNCHANGED <<randomTape, randomPos, scrabbleData, scrabbleWords,
                   dictionary, calls, pc, letters, grid, attempts, validWords,
                   foundPaths, rejects, writers, redis, redisTtl, response,
                   storedBefore, choice, readable,
                   initResult,
                   submits, post, second, rateLimits, now, passed,
                   gameBoard>>

NextDeploy ==
    \/ Next
    \/ ServerRedeploy
    \/ \E k \in 1..Len(validWords) : SubmitStoredWord(k)

SpecDeploy == Init /\ [][NextDeploy]_vars

(***************************************************************************)
(* The server with clients that send a submission a second time: the same  *)
(* word and path as the request last answered, marked as the second        *)
(* attempt, while the answer to the first is still on record.              *)
(***************************************************************************)
Resubmit ==
    /\ pc = "done"
    /\ request = Null /\ response # Null
    /\ "attempt" \notin DOMAIN ValueOf(response).request
    /\ request' = Some([word |-> ValueOf(response).request.word,
                        path |-> ValueOf(response).request.path,
                        attempt |-> 2])
    /\ UNCHANGED <<randomTape, randomPos, scrabbleData, scrabbleWords,
                   dictionary, calls, pc, letters, grid, attempts, validWords,
                   foundPaths, rejects, writers, redis, redisTtl, response,
                   storedBefore, choice, readable,
                   initResult,
                   submits, post, second, rateLimits, now, passed,
                   gameBoard>>

NextReplay ==
    \/ NextPlay
    \/ Resubmit

SpecReplay == Init /\ [][NextReplay]_vars

(***************************************************************************)
(* GridGenerator.findValidWords as a function of its argument: the word    *)
(* list is loaded and the function is applied to a grid made of the rows   *)
(* of SearchRows.                                                          *)
(***************************************************************************)
SearchRows ==
    {<<"C","A","T","S">>, <<"A","C","T","B">>, <<"B","S","A","B">>}

SearchGrids ==
    {[i \in Idx |-> [j \in Idx |-> rows[i][j + 1]]] : rows \in [Idx -> SearchRows]}

SearchFiles == {FileScenario, FileRich}

InitSearch ==
    /\ randomTape = [i \in 0..(TapeLen - 1) |-> 0]
    /\ randomPos = 0
    /\ scrabbleData \in SearchFiles
    /\ scrabbleWords = Some(LoadWordSet(scrabbleData))
    /\ dictionary = [initialized |-> FALSE, scrabbleWords |-> Undefined]
    /\ calls = 0
    /\ pc = "idle"
    /\ letters = <<>>
    /\ grid \in SearchGrids
    /\ attempts = 0
    /\ validWords = <<>>
    /\ foundPaths = <<>>
    /\ rejects = 0
    /\ writers = NoWriters
    /\ redis = EmptyRedis
    /\ redisTtl = {}
    /\ request = Null
    /\ response = Null
    /\ storedBefore = [grid |-> Null, words |-> Null]
    /\ readable = TRUE
    /\ initResult = Null
    /\ submits = <<>>
    /\ post = "idle"
    /\ second = Null
    /\ rateLimits = EmptyRateLimits
    /\ now = 0
    /\ passed = NonePassed
    /\ gameBoard = Null
    /\ choice = Null

CallFindValidWords ==
    /\ pc = "idle"
    /\ scrabbleWords # Undefined
    /\ LET st == findValidWords(grid)
       IN /\ validWords' = st.validWords
          /\ foundPaths' = st.paths
    /\ pc' = "searched"
    /\ UNCHANGED <<randomTape, randomPos, scrabbleData, scrabbleWords,
                   dictionary, calls, letters, grid, attempts, rejects,
                   writers, redis, redisTtl, request, response,
                   storedBefore, choice, readable,
                   initResult,
                   submits, post, second, rateLimits, now, passed,
                   gameBoard>>

NextSearch == CallFindValidWords

SpecSearch == InitSearch /\ [][NextSearch]_vars

(***************************************************************************)
(* GridGenerator.placeLettersInGrid as a function of its arguments         *)
(* (grid.ts:97-141): generateGrid calls it with the grid filled with 'A'   *)
(* and a letter array that generateBalancedLetterSet can return (four      *)
(* vowels, eight consonants, four more letters).                           *)
(***************************************************************************)
PlaceLetterArrays ==
    {<<"A", "A", "E", "E", "B", "B", "B", "B", "B", "B", "C", "C", "C", "C", "C", "C">>,
     <<"A", "E", "I", "O", "B", "B", "B", "B", "B", "B", "B", "B", "C", "C", "C", "C">>}

InitPlace ==
    /\ randomTape \in Tapes
    /\ randomPos = 0
    /\ scrabbleData \in WordFiles
    /\ scrabbleWords = Some(LoadWordSet(scrabbleData))
    /\ dictionary = [initialized |-> FALSE, scrabbleWords |-> Undefined]
    /\ calls = 1
    /\ pc = "place"
    /\ letters \in PlaceLetterArrays
    /\ grid = FilledWithA
    /\ attempts = 0
    /\ validWords = <<>>
    /\ foundPaths = <<>>
    /\ rejects = 0
    /\ writers = NoWriters
    /\ redis = EmptyRedis
    /\ redisTtl = {}
    /\ request = Null
    /\ response = Null
    /\ storedBefore = [grid |-> Null, words |-> Null]
    /\ choice = Null
    /\ readable = TRUE
    /\ initResult = InitializeResolved
    /\ submits = <<>>
    /\ post = "idle"
    /\ second = Null
    /\ rateLimits = EmptyRateLimits
    /\ now = 0
    /\ passed = NonePassed
    /\ gameBoard = Null

NextPlace ==
    \/ PlaceAttempt
    \/ PlaceRecurse
    \/ PlaceReturn

SpecPlace == InitPlace /\ [][NextPlace]_vars

(***************************************************************************)
(* The server where data/scrabble.txt cannot be read: from the start, or   *)
(* after a deployment that lacks the file while the store keeps the        *)
(* puzzle.  readFile rejects, and with it the initialize calls             *)
(* (grid.ts:29-38, dictionary.ts:13-23) and the validateWord that calls    *)
(* initialize (dictionary.ts:31-33).                                       *)
(***************************************************************************)
InitLoad ==
    /\ randomTape \in Tapes
    /\ randomPos = 0
    /\ scrabbleData \in WordFiles
    /\ scrabbleWords = Undefined
    /\ dictionary = [initialized |-> FALSE, scrabbleWords |-> Undefined]
    /\ calls = 0
    /\ pc = "idle"
    /\ letters = <<>>
    /\ grid = FilledWithA
    /\ attempts = 0
    /\ validWords = <<>>
    /\ foundPaths = <<>>
    /\ rejects = 0
    /\ writers = NoWriters
    /\ redis = EmptyRedis
    /\ redisTtl = {}
    /\ request = Null
    /\ response = Null
    /\ storedBefore = [grid |-> Null, words |-> Null]
    /\ choice = Null
    /\ readable \in BOOLEAN
    /\ initResult = Null
    /\ submits = <<>>
    /\ post = "idle"
    /\ second = Null
    /\ rateLimits = EmptyRateLimits
    /\ now = 0
    /\ passed = NonePassed
    /\ gameBoard = Null

ServerRedeployWithoutWordList ==
    /\ pc = "done"
    /\ readable
    /\ readable' = FALSE
    /\ scrabbleWords' = Undefined
    /\ dictionary' = [initialized |-> FALSE, scrabbleWords |-> Undefined]
    /\ pc' = "idle"
    /\ request' = Null
    /\ response' = Null
    /\ initResult' = Null
    /\ UNCHANGED <<randomTape, randomPos, scrabbleData, calls, letters, grid,
                   attempts, validWords, foundPaths, rejects, writers, redis,
                   redisTtl, storedBefore, choice,
                   submits, post, second, rateLimits, now, passed,
                   gameBoard>>

NextLoad ==
    \/ Next
    \/ ServerRedeployWithoutWordList
    \/ \E k \in 1..Len(validWords) : SubmitStoredWord(k)

SpecLoad == InitLoad /\ [][NextLoad]_vars

(***************************************************************************)
(* GridGenerator.weightedRandomChoice as a function of its arguments       *)
(* (grid.ts:276-302): it is called with a list of at most MaxItems letters *)
(* of ChoiceLetters, the empty list among them, a weight function with     *)
(* weights of ChoiceWeights, and the next result of Math.random().         *)
(***************************************************************************)
ChoiceLetters == {"A", "E", "B"}

ChoiceWeights == {0, 1, 2}

ChoiceLists ==
    UNION {[1..n -> ChoiceLetters] : n \in 0..MaxItems}

InitChoice ==
    /\ randomTape \in {[i \in 0..(TapeLen - 1) |-> r] : r \in 0..(RandDen - 1)}
    /\ randomPos = 0
    /\ scrabbleData = FileRich
    /\ scrabbleWords = Undefined
    /\ dictionary = [initialized |-> FALSE, scrabbleWords |-> Undefined]
    /\ calls = 0
    /\ pc = "idle"
    /\ letters = <<>>
    /\ grid = FilledWithA
    /\ attempts = 0
    /\ validWords = <<>>
    /\ foundPaths = <<>>
    /\ rejects = 0
    /\ writers = NoWriters
    /\ redis = EmptyRedis
    /\ redisTtl = {}
    /\ request = Null
    /\ response = Null
    /\ storedBefore = [grid |-> Null, words |-> Null]
    /\ readable = TRUE
    /\ initResult = Null
    /\ submits = <<>>
    /\ post = "idle"
    /\ second = Null
    /\ rateLimits = EmptyRateLimits
    /\ now = 0
    /\ passed = NonePassed
    /\ gameBoard = Null
    /\ \E items \in ChoiceLists, weightFn \in [ChoiceLetters -> ChoiceWeights] :
          choice = Some([items |-> items, weightFn |-> weightFn,
                         returned |-> Null])

CallWeightedRandomChoice ==
    /\ choice # Null
    /\ ValueOf(choice).returned = Null
    /\ choice' = Some([ValueOf(choice) EXCEPT !.returned =
                          Some(weightedRandomChoice(ValueOf(choice).items,
                                                    ValueOf(choice).weightFn,
                                                    MathRandom(randomPos)))])
    /\ randomPos' = IF Len(ValueOf(choice).items) = 0 THEN randomPos
                    ELSE (randomPos + 1) % TapeLen
    /\ UNCHANGED <<randomTape, scrabbleData, scrabbleWords, dictionary, calls,
                   pc, letters, grid, attempts, validWords, foundPaths,
                   rejects, writers, redis, redisTtl, request, response,
                   storedBefore, readable, initResult,
                   submits, post, second, rateLimits, now, passed,
                   gameBoard>>

NextChoice == CallWeightedRandomChoice

SpecChoice == InitChoice /\ [][NextChoice]_vars

(***************************************************************************)
(* generateDailyPuzzle from the return of generateGrid (grid.ts:198) with  *)
(* a word list whose words have three letters and more, followed by        *)
(* clients of POST /api/validate-word.  The grid is one that generateGrid  *)
(* can return: four vowels, twelve consonants, no triplet; letters is the  *)
(* array that placeLettersInGrid placed row by row.                        *)
(***************************************************************************)
\* three equal letters in a row of the grid, or in a column
HasTriplet(g) ==
    \/ \E i \in Idx, j \in 0..(GRID_SIZE - 3) :
          g[i][j] = g[i][j + 1] /\ g[i][j + 1] = g[i][j + 2]
    \/ \E i \in 0..(GRID_SIZE - 3), j \in Idx :
          g[i][j] = g[i + 1][j] /\ g[i + 1][j] = g[i + 2][j]

ScoreGrids == {g \in SearchGrids : ~HasTriplet(g)}

InitScore ==
    /\ randomTape = [i \in 0..(TapeLen - 1) |-> 0]
    /\ randomPos = 0
    /\ scrabbleData = FileScore
    /\ scrabbleWords = Some(LoadWordSet(scrabbleData))
    /\ dictionary \in {[initialized |-> FALSE, scrabbleWords |-> Undefined],
                       [initialized |-> TRUE,
                        scrabbleWords |-> Some(LoadWordSet(scrabbleData))]}
    /\ calls = 1
    /\ pc = "generated"
    /\ grid \in ScoreGrids
    /\ letters = [n \in 1..(GRID_SIZE * GRID_SIZE) |->
                     grid[(n - 1) \div GRID_SIZE][(n - 1) % GRID_SIZE]]
    /\ attempts = 1
    /\ validWords = <<>>
    /\ foundPaths = <<>>
    /\ rejects = 0
    /\ writers = NoWriters
    /\ redis = EmptyRedis
    /\ redisTtl = {}
    /\ request = Null
    /\ response = Null
    /\ storedBefore = [grid |-> Null, words |-> Null]
    /\ readable = TRUE
    /\ initResult = Null
    /\ submits = <<>>
    /\ post = "idle"
    /\ second = Null
    /\ rateLimits = EmptyRateLimits
    /\ now = 0
    /\ passed = NonePassed
    /\ gameBoard = Null
    /\ choice = Null

NextScore ==
    \/ FindValidWords
    \/ Accept
    \/ ResetDailyData
    \/ SetDailyGridSet
    \/ SetDailyGridExpire
    \/ SetDailyWordsSet
    \/ SetDailyWordsExpire
    \/ PuzzleStored
    \/ \E k \in 1..Len(validWords) : SubmitWord(k)
    \/ HandleValidateWord

SpecScore == InitScore /\ [][NextScore]_vars

(***************************************************************************)
(* POST /api/submit-score (index.ts:141-210) with its awaits: requests of  *)
(* several players are handled at the same time, and between two awaits of *)
(* one handler the steps of another can run.  A request is a record        *)
(* [user, score, words, timeElapsed] together with the position of its     *)
(* handler (at), what the handler has read so far (validWords,             *)
(* currentScore) and its response.  The await of getCurrentUsername        *)
(* touches no state of the server and is part of ReceiveSubmit.            *)
(***************************************************************************)
SubmitBodies ==
    {[score |-> 10 * Len(words), words |-> words, timeElapsed |-> 30] :
        words \in IF Len(validWords) < 2 THEN {}
                  ELSE {<<>>, SubSeq(validWords, 1, 1),
                        SubSeq(validWords, 1, 2), validWords,
                        [k \in 1..Len(validWords) |-> validWords[1]]}}

SubmitResponse(status, code) == [status |-> status, code |-> code]

\* the request record with the handler at position at
SubmitAt(i, at) == [submits EXCEPT ![i].at = at]

SubmitResponded(i, status, code) ==
    [submits EXCEPT ![i].at = "responded",
                    ![i].response = Some(SubmitResponse(status, code))]

\* index.ts:142-162
ReceiveSubmit(username, body) ==
    /\ pc = "done"
    /\ Len(submits) < MaxSubmits
    /\ submits' =
          Append(submits,
                 [user |-> username, score |-> body.score,
                  words |-> body.words, timeElapsed |-> body.timeElapsed,
                  validWords |-> Null, currentScore |-> Null,
                  at |-> IF body.score = 0 THEN "responded"
                         ELSE "isGameCompleted",
                  response |-> IF body.score = 0
                               THEN Some(SubmitResponse(400, "INVALID_REQUEST"))
                               ELSE Null])
    /\ UNCHANGED <<randomTape, randomPos, scrabbleData, scrabbleWords,
                   dictionary, calls, pc, letters, grid, attempts, validWords,
                   foundPaths, rejects, writers, redis, redisTtl, request,
                   response, storedBefore, choice, readable, initResult,
                   post, second, rateLimits, now, passed,
                   gameBoard>>

\* index.ts:164-173
SubmitIsGameCompleted(i) ==
    /\ submits[i].at = "isGameCompleted"
    /\ submits' = IF isGameCompleted.completed
                  THEN SubmitResponded(i, 200, "LEADERBOARD_CLOSED")
                  ELSE SubmitAt(i, "getDailyWords")
    /\ UNCHANGED <<randomTape, randomPos, scrabbleData, scrabbleWords,
                   dictionary, calls, pc, letters, grid, attempts, validWords,
                   foundPaths, rejects, writers, redis, redisTtl, request,
                   response, storedBefore, choice, readable, initResult,
                   post, second, rateLimits, now, passed,
                   gameBoard>>

\* index.ts:175-186
SubmitGetDailyWords(i) ==
    /\ submits[i].at = "getDailyWords"
    /\ LET stored == getDailyWords
           allWordsValid ==
               \A k \in 1..Len(submits[i].words) :
                  toUpperCase(submits[i].words[k]) \in ValueOf(stored)
       IN submits' =
             IF stored = Null
             THEN SubmitResponded(i, 500, "INTERNAL_ERROR")
             ELSE IF ~allWordsValid
             THEN SubmitResponded(i, 400, "INVALID_WORDS")
             ELSE [submits EXCEPT ![i].at = "hGet", ![i].validWords = stored]
    /\ UNCHANGED <<randomTape, randomPos, scrabbleData, scrabbleWords,
                   dictionary, calls, pc, letters, grid, attempts, validWords,
                   foundPaths, rejects, writers, redis, redisTtl, request,
                   response, storedBefore, choice, readable, initResult,
                   post, second, rateLimits, now, passed,
                   gameBoard>>

\* updateLeaderboard: redis.hGet(userKey, 'score') (storage.ts:102)
SubmitHGet(i) ==
    /\ submits[i].at = "hGet"
    /\ LET hash == redis[userKey(submits[i].user)]
           currentScore == IF hash = Null THEN Null
                           ELSE Some(ValueOf(hash).score)
       IN submits' =
             [submits EXCEPT
                ![i].currentScore = currentScore,
                ![i].at = IF currentScore = Null
                             \/ ValueOf(currentScore) < submits[i].score
                          THEN "hSet" ELSE "zAdd"]
    /\ UNCHANGED <<randomTape, randomPos, scrabbleData, scrabbleWords,
                   dictionary, calls, pc, letters, grid, attempts, validWords,
                   foundPaths, rejects, writers, redis, redisTtl, request,
                   response, storedBefore, choice, readable, initResult,
                   post, second, rateLimits, now, passed,
                   gameBoard>>

\* updateLeaderboard: redis.hSet (storage.ts:103-110)
SubmitHSet(i) ==
    /\ submits[i].at = "hSet"
    /\ redis' = [redis EXCEPT ![userKey(submits[i].user)] =
                    Some([score |-> submits[i].score,
                          foundWords |-> submits[i].words,
                          timeElapsed |-> submits[i].timeElapsed])]
    /\ submits' = SubmitAt(i, "zAdd")
    /\ UNCHANGED <<randomTape, randomPos, scrabbleData, scrabbleWords,
                   dictionary, calls, pc, letters, grid, attempts, validWords,
                   foundPaths, rejects, writers, redisTtl, request,
                   response, storedBefore, choice, readable, initResult,
                   post, second, rateLimits, now, passed,
                   gameBoard>>

\* updateLeaderboard: redis.zAdd (storage.ts:113-116)
SubmitZAdd(i) ==
    /\ submits[i].at = "zAdd"
    /\ LET board == IF redis[leaderboardKey] = Null THEN <<>>
                    ELSE ValueOf(redis[leaderboardKey])
       IN redis' = [redis EXCEPT ![leaderboardKey] =
                       Some([m \in DOMAIN board \cup {submits[i].user} |->
                                IF m = submits[i].user THEN submits[i].score
                                ELSE board[m]])]
    /\ submits' = SubmitAt(i, "expire")
    /\ UNCHANGED <<randomTape, randomPos, scrabbleData, scrabbleWords,
                   dictionary, calls, pc, letters, grid, attempts, validWords,
                   foundPaths, rejects, writers, redisTtl, request,
                   response, storedBefore, choice, readable, initResult,
                   post, second, rateLimits, now, passed,
                   gameBoard>>

\* updateLeaderboard: the two redis.expire (storage.ts:119-122), then the
\* test of index.ts:192
SubmitExpire(i) ==
    /\ submits[i].at = "expire"
    /\ redisTtl' =
          redisTtl \cup {k \in {leaderboardKey, userKey(submits[i].user)} :
                            redis[k] # Null}
    /\ submits' =
          SubmitAt(i, IF Len(submits[i].words)
                           = Cardinality(ValueOf(submits[i].validWords))
                      THEN "markGameCompleted" ELSE "getDailyLeaderboard")
    /\ UNCHANGED <<randomTape, randomPos, scrabbleData, scrabbleWords,
                   dictionary, calls, pc, letters, grid, attempts, validWords,
                   foundPaths, rejects, writers, redis, request,
                   response, storedBefore, choice, readable, initResult,
                   post, second, rateLimits, now, passed,
                   gameBoard>>

\* markGameCompleted (storage.ts:182-184) and index.ts:193-195
SubmitMarkGameCompleted(i) ==
    /\ submits[i].at = "markGameCompleted"
    /\ redis' = [redis EXCEPT ![KEYS.COMPLETION] = Some(submits[i].user)]
    /\ redisTtl' = redisTtl \ {KEYS.COMPLETION}
    /\ submits' = SubmitResponded(i, 200, "COMPLETED")
    /\ UNCHANGED <<randomTape, randomPos, scrabbleData, scrabbleWords,
                   dictionary, calls, pc, letters, grid, attempts, validWords,
                   foundPaths, rejects, writers, request,
                   response, storedBefore, choice, readable, initResult,
                   post, second, rateLimits, now, passed,
                   gameBoard>>

\* getDailyLeaderboard (storage.ts:128-176) reads the sorted set and the
\* hashes and then runs into `members`, which nothing declares
\* (storage.ts:167): the ReferenceError is answered 500 (index.ts:202-209)
SubmitGetDailyLeaderboard(i) ==
    /\ submits[i].at = "getDailyLeaderboard"
    /\ submits' = SubmitResponded(i, 500, "SUBMISSION_ERROR")
    /\ UNCHANGED <<randomTape, randomPos, scrabbleData, scrabbleWords,
                   dictionary, calls, pc, letters, grid, attempts, validWords,
                   foundPaths, rejects, writers, redis, redisTtl, request,
                   response, storedBefore, choice, readable, initResult,
                   post, second, rateLimits, now, passed,
                   gameBoard>>

\* one grid of ScoreGrids
SubmitGrid == CHOOSE g \in ScoreGrids : TRUE

InitSubmit ==
    /\ randomTape = [i \in 0..(TapeLen - 1) |-> 0]
    /\ randomPos = 0
    /\ scrabbleData = FileScore
    /\ scrabbleWords = Some(LoadWordSet(scrabbleData))
    /\ dictionary = [initialized |-> TRUE,
                     scrabbleWords |-> Some(LoadWordSet(scrabbleData))]
    /\ calls = 1
    /\ pc = "generated"
    /\ grid = SubmitGrid
    /\ letters = [n \in 1..(GRID_SIZE * GRID_SIZE) |->
                     grid[(n - 1) \div GRID_SIZE][(n - 1) % GRID_SIZE]]
    /\ attempts = 1
    /\ validWords = <<>>
    /\ foundPaths = <<>>
    /\ rejects = 0
    /\ writers = NoWriters
    /\ redis = EmptyRedis
    /\ redisTtl = {}
    /\ request = Null
    /\ response = Null
    /\ storedBefore = [grid |-> Null, words |-> Null]
    /\ choice = Null
    /\ readable = TRUE
    /\ initResult = InitializeResolved
    /\ submits = <<>>
    /\ post = "idle"
    /\ second = Null
    /\ rateLimits = EmptyRateLimits
    /\ now = 0
    /\ passed = NonePassed
    /\ gameBoard = Null

NextSubmit ==
    \/ FindValidWords
    \/ Accept
    \/ ResetDailyData
    \/ SetDailyGridSet
    \/ SetDailyGridExpire
    \/ SetDailyWordsSet
    \/ SetDailyWordsExpire
    \/ PuzzleStored
    \/ \E username \in Submitters, body \in SubmitBodies :
          ReceiveSubmit(username, body)
    \/ \E i \in 1..Len(submits) : SubmitIsGameCompleted(i)
    \/ \E i \in 1..Len(submits) : SubmitGetDailyWords(i)
    \/ \E i \in 1..Len(submits) : SubmitHGet(i)
    \/ \E i \in 1..Len(submits) : SubmitHSet(i)
    \/ \E i \in 1..Len(submits) : SubmitZAdd(i)
    \/ \E i \in 1..Len(submits) : SubmitExpire(i)
    \/ \E i \in 1..Len(submits) : SubmitMarkGameCompleted(i)
    \/ \E i \in 1..Len(submits) : SubmitGetDailyLeaderboard(i)

SpecSubmit == InitSubmit /\ [][NextSubmit]_vars

(***************************************************************************)
(* The rate limiter of the game routes (index.ts:40-71).  rateLimits maps  *)
(* an address to {count, firstRequest}; now is Date.now() in milliseconds, *)
(* advanced by the clock in steps of TickMs; passed[ip] lists the times at *)
(* which a request of ip was handed to next().                             *)
(***************************************************************************)
\* const gameRateLimit = rateLimit(60000, 60) (index.ts:71)
windowMs == 60000

maxRequests == 60

TickMs == 50000

\* rateLimit (index.ts:45-68): one request of ip through the middleware
rateLimit(ip) ==
    LET windowStart == now - windowMs
        stored == IF rateLimits[ip] = Null
                  THEN [count |-> 0, firstRequest |-> now]
                  ELSE ValueOf(rateLimits[ip])
        info == IF stored.firstRequest < windowStart
                THEN [count |-> 0, firstRequest |-> now]
                ELSE stored
    IN IF info.count >= maxRequests
       THEN /\ response' = Some([status |-> 429,
                                 code |-> "RATE_LIMIT_EXCEEDED"])
            /\ UNCHANGED <<rateLimits, passed>>
       ELSE /\ rateLimits' =
                  [rateLimits EXCEPT ![ip] =
                      Some([info EXCEPT !.count = info.count + 1])]
            /\ passed' = [passed EXCEPT ![ip] = Append(passed[ip], now)]
            /\ response' = Null

RateLimitedRequest(ip) ==
    /\ rateLimit(ip)
    /\ UNCHANGED <<randomTape, randomPos, scrabbleData, scrabbleWords,
                   dictionary, calls, pc, letters, grid, attempts, validWords,
                   foundPaths, rejects, writers, redis, redisTtl, request,
                   storedBefore, choice, readable, initResult, submits, post,
                   second, now,
                   gameBoard>>

\* time passes between two requests
ClockTick ==
    /\ now + TickMs <= MaxTicks * TickMs
    /\ now' = now + TickMs
    /\ UNCHANGED <<randomTape, randomPos, scrabbleData, scrabbleWords,
                   dictionary, calls, pc, letters, grid, attempts, validWords,
                   foundPaths, rejects, writers, redis, redisTtl, request,
                   storedBefore, choice, readable, initResult, submits, post,
                   second, response, rateLimits, passed,
                   gameBoard>>

InitLimit ==
    /\ Init
    /\ randomTape = [i \in 0..(TapeLen - 1) |-> 0]
    /\ scrabbleData = FileRich

NextLimit ==
    \/ \E ip \in Ips : RateLimitedRequest(ip)
    \/ ClockTick

SpecLimit == InitLimit /\ [][NextLimit]_vars

(***************************************************************************)
(* createPost (post.ts:5-60), called by the on-app-install trigger         *)
(* (index.ts:258-273) and the post-create route (index.ts:235-256).  post  *)
(* is the await at which the call stands.  The specification starts inside *)
(* the generateDailyPuzzle call of post.ts:15, with the grid that          *)
(* generateGrid returned.                                                  *)
(***************************************************************************)
\* post.ts:15-21: generateDailyPuzzle has returned or thrown; getDailyGrid
CreatePostGetDailyGrid ==
    /\ post = "generateDailyPuzzle"
    /\ pc \in {"done", "error"}
    /\ post' = IF pc = "error" \/ getDailyGrid = Null THEN "error"
               ELSE "submitCustomPost"
    /\ UNCHANGED <<randomTape, randomPos, scrabbleData, scrabbleWords,
                   dictionary, calls, pc, letters, grid, attempts,
                   validWords, foundPaths, rejects, writers, redis,
                   redisTtl, request, response, storedBefore, choice,
                   readable, initResult, submits, second, rateLimits, now,
                   passed,
                   gameBoard>>

\* post.ts:28-39
CreatePostSubmitCustomPost ==
    /\ post = "submitCustomPost"
    /\ post' = "resetDailyData"
    /\ UNCHANGED <<randomTape, randomPos, scrabbleData, scrabbleWords,
                   dictionary, calls, pc, letters, grid, attempts,
                   validWords, foundPaths, rejects, writers, redis,
                   redisTtl, request, response, storedBefore, choice,
                   readable, initResult, submits, second, rateLimits, now,
                   passed,
                   gameBoard>>

\* post.ts:42 with GameStorage.resetDailyData (storage.ts:200-207)
CreatePostResetDailyData ==
    /\ post = "resetDailyData"
    /\ redis' = [k \in RedisKeys |->
                    IF k \in {KEYS.DAILY_GRID, KEYS.DAILY_WORDS,
                              KEYS.LEADERBOARD, KEYS.COMPLETION}
                    THEN Null ELSE redis[k]]
    /\ redisTtl' = redisTtl \ {KEYS.DAILY_GRID, KEYS.DAILY_WORDS,
                                KEYS.LEADERBOARD, KEYS.COMPLETION}
    /\ post' = "updateLeaderboard"
    /\ UNCHANGED <<randomTape, randomPos, scrabbleData, scrabbleWords,
                   dictionary, calls, pc, letters, grid, attempts,
                   validWords, foundPaths, rejects, writers, request,
                   response, storedBefore, choice, readable, initResult,
                   submits, second, rateLimits, now, passed,
                   gameBoard>>

\* post.ts:45-54: updateLeaderboard('system', 0, [], 0), then return post
CreatePostUpdateLeaderboard ==
    /\ post = "updateLeaderboard"
    /\ redis' = updateLeaderboard(redis, "system", 0, <<>>, 0)
    /\ redisTtl' = redisTtl \cup {leaderboardKey, userKey("system")}
    /\ post' = "returned"
    /\ UNCHANGED <<randomTape, randomPos, scrabbleData, scrabbleWords,
                   dictionary, calls, pc, letters, grid, attempts,
                   validWords, foundPaths, rejects, writers, request,
                   response, storedBefore, choice, readable, initResult,
                   submits, second, rateLimits, now, passed,
                   gameBoard>>

\* GET /api/daily-grid (index.ts:73-90)
HandleDailyGrid ==
    /\ response' = IF getDailyGrid = Null
                   THEN Some([status |-> 404, code |-> "GRID_NOT_FOUND"])
                   ELSE Some([status |-> 200, grid |-> ValueOf(getDailyGrid)])
    /\ UNCHANGED <<randomTape, randomPos, scrabbleData, scrabbleWords,
                   dictionary, calls, pc, letters, grid, attempts,
                   validWords, foundPaths, rejects, writers, redis,
                   redisTtl, request, storedBefore, choice, readable,
                   initResult, submits, post, second, rateLimits, now,
                   passed,
                   gameBoard>>

InitPost ==
    /\ randomTape = [i \in 0..(TapeLen - 1) |-> 0]
    /\ randomPos = 0
    /\ scrabbleData = FileScore
    /\ scrabbleWords = Some(LoadWordSet(scrabbleData))
    /\ dictionary \in {[initialized |-> FALSE, scrabbleWords |-> Undefined],
                       [initialized |-> TRUE,
                        scrabbleWords |-> Some(LoadWordSet(scrabbleData))]}
    /\ calls = 1
    /\ pc = "generated"
    /\ grid \in ScoreGrids
    /\ letters = [n \in 1..(GRID_SIZE * GRID_SIZE) |->
                     grid[(n - 1) \div GRID_SIZE][(n - 1) % GRID_SIZE]]
    /\ attempts = 1
    /\ validWords = <<>>
    /\ foundPaths = <<>>
    /\ rejects = 0
    /\ writers = NoWriters
    /\ redis = EmptyRedis
    /\ redisTtl = {}
    /\ request = Null
    /\ response = Null
    /\ storedBefore = [grid |-> Null, words |-> Null]
    /\ readable = TRUE
    /\ initResult = Null
    /\ submits = <<>>
    /\ post = "generateDailyPuzzle"
    /\ second = Null
    /\ rateLimits = EmptyRateLimits
    /\ now = 0
    /\ passed = NonePassed
    /\ gameBoard = Null
    /\ choice = Null

NextPost ==
    \/ FindValidWords
    \/ Accept
    \/ ResetDailyData
    \/ SetDailyGridSet
    \/ SetDailyGridExpire
    \/ SetDailyWordsSet
    \/ SetDailyWordsExpire
    \/ PuzzleStored
    \/ CreatePostGetDailyGrid
    \/ CreatePostSubmitCustomPost
    \/ CreatePostResetDailyData
    \/ CreatePostUpdateLeaderboard
    \/ HandleDailyGrid

SpecPost == InitPost /\ [][NextPost]_vars

(***************************************************************************)
(* A second call of generateDailyPuzzle while the first is at an await or  *)
(* after it has returned: server start (index.ts:279-282), createPost      *)
(* (post.ts:15) and the post-create route (index.ts:240-243) each call it. *)
(* The statements of a call up to `await GameStorage.resetDailyData()`     *)
(* (grid.ts:197-218) run without interruption; from there on the redis     *)
(* commands of the two calls interleave.  second holds the locals of the   *)
(* second call: its position, the grid generateGrid returned, the words    *)
(* findValidWords found and the positions of its two writers.              *)
(***************************************************************************)
\* the grids generateGrid returns to the two calls
RaceGrids ==
    {[i \in Idx |-> [j \in Idx |-> rows[i + 1][j + 1]]] :
        rows \in {<<<<"C","A","T","S">>, <<"A","C","T","B">>,
                    <<"B","S","A","B">>, <<"C","A","T","S">>>>,
                  <<<<"C","A","T","S">>, <<"C","A","T","S">>,
                    <<"B","T","A","B">>, <<"B","S","A","B">>>>}}

\* grid.ts:197: generateGrid returns a grid
SecondCallGenerateDailyPuzzle ==
    /\ second = Null
    /\ pc \in {"reset", "store", "done"}
    /\ \E g \in RaceGrids :
          second' = Some([at |-> "generated", grid |-> g, validWords |-> <<>>,
                          writers |-> NoWriters])
    /\ UNCHANGED <<randomTape, randomPos, scrabbleData, scrabbleWords,
                   dictionary, calls, pc, letters, grid, attempts,
                   validWords, foundPaths, rejects, writers, redis,
                   redisTtl, request, response, storedBefore, choice,
                   readable, initResult, submits, post, rateLimits, now,
                   passed,
                   gameBoard>>

\* grid.ts:198-204: the search, and the test of the word count
SecondFindValidWords ==
    /\ second # Null /\ ValueOf(second).at = "generated"
    /\ scrabbleWords # Undefined
    /\ LET st == findValidWords(ValueOf(second).grid)
       IN /\ Len(st.validWords) >= MIN_WORD_COUNT
          /\ second' = Some([ValueOf(second) EXCEPT
                                !.at = "reset", !.validWords = st.validWords])
    /\ UNCHANGED <<randomTape, randomPos, scrabbleData, scrabbleWords,
                   dictionary, calls, pc, letters, grid, attempts,
                   validWords, foundPaths, rejects, writers, redis,
                   redisTtl, request, response, storedBefore, choice,
                   readable, initResult, submits, post, rateLimits, now,
                   passed,
                   gameBoard>>

\* grid.ts:218 with storage.ts:200-207
SecondResetDailyData ==
    /\ second # Null /\ ValueOf(second).at = "reset"
    /\ redis' = [k \in RedisKeys |->
                    IF k \in {KEYS.DAILY_GRID, KEYS.DAILY_WORDS,
                              KEYS.LEADERBOARD, KEYS.COMPLETION}
                    THEN Null ELSE redis[k]]
    /\ redisTtl' = redisTtl \ {KEYS.DAILY_GRID, KEYS.DAILY_WORDS,
                                KEYS.LEADERBOARD, KEYS.COMPLETION}
    /\ second' = Some([ValueOf(second) EXCEPT
                          !.at = "store",
                          !.writers = [grid |-> "set", words |-> "set"]])
    /\ UNCHANGED <<randomTape, randomPos, scrabbleData, scrabbleWords,
                   dictionary, calls, pc, letters, grid, attempts,
                   validWords, foundPaths, rejects, writers, request,
                   response, storedBefore, choice, readable, initResult,
                   submits, post, rateLimits, now, passed,
                   gameBoard>>

\* setDailyGrid of the second call (storage.ts:29-33)
SecondSetDailyGridSet ==
    /\ second # Null /\ ValueOf(second).at = "store"
    /\ ValueOf(second).writers.grid = "set"
    /\ redis' = [redis EXCEPT ![KEYS.DAILY_GRID] =
                    Some([grid |-> ValueOf(second).grid,
                          dailyId |-> "todayDate", date |-> "todayDate"])]
    /\ redisTtl' = redisTtl \ {KEYS.DAILY_GRID}
    /\ second' = Some([ValueOf(second) EXCEPT !.writers.grid = "expire"])
    /\ UNCHANGED <<randomTape, randomPos, scrabbleData, scrabbleWords,
                   dictionary, calls, pc, letters, grid, attempts,
                   validWords, foundPaths, rejects, writers, request,
                   response, storedBefore, choice, readable, initResult,
                   submits, post, rateLimits, now, passed,
                   gameBoard>>

SecondSetDailyGridExpire ==
    /\ second # Null /\ ValueOf(second).at = "store"
    /\ ValueOf(second).writers.grid = "expire"
    /\ redisTtl' = IF redis[KEYS.DAILY_GRID] # Null
                   THEN redisTtl \cup {KEYS.DAILY_GRID} ELSE redisTtl
    /\ second' = Some([ValueOf(second) EXCEPT !.writers.grid = "done"])
    /\ UNCHANGED <<randomTape, randomPos, scrabbleData, scrabbleWords,
                   dictionary, calls, pc, letters, grid, attempts,
                   validWords, foundPaths, rejects, writers, redis, request,
                   response, storedBefore, choice, readable, initResult,
                   submits, post, rateLimits, now, passed,
                   gameBoard>>

\* setDailyWords of the second call (storage.ts:74-78)
SecondSetDailyWordsSet ==
    /\ second # Null /\ ValueOf(second).at = "store"
    /\ ValueOf(second).writers.words = "set"
    /\ redis' = [redis EXCEPT ![KEYS.DAILY_WORDS] =
                    Some(ValueOf(second).validWords)]
    /\ redisTtl' = redisTtl \ {KEYS.DAILY_WORDS}
    /\ second' = Some([ValueOf(second) EXCEPT !.writers.words = "expire"])
    /\ UNCHANGED <<randomTape, randomPos, scrabbleData, scrabbleWords,
                   dictionary, calls, pc, letters, grid, attempts,
                   validWords, foundPaths, rejects, writers, request,
                   response, storedBefore, choice, readable, initResult,
                   submits, post, rateLimits, now, passed,
                   gameBoard>>

SecondSetDailyWordsExpire ==
    /\ second # Null /\ ValueOf(second).at = "store"
    /\ ValueOf(second).writers.words = "expire"
    /\ redisTtl' = IF redis[KEYS.DAILY_WORDS] # Null
                   THEN redisTtl \cup {KEYS.DAILY_WORDS} ELSE redisTtl
    /\ second' = Some([ValueOf(second) EXCEPT !.writers.words = "done"])
    /\ UNCHANGED <<randomTape, randomPos, scrabbleData, scrabbleWords,
                   dictionary, calls, pc, letters, grid, attempts,
                   validWords, foundPaths, rejects, writers, redis, request,
                   response, storedBefore, choice, readable, initResult,
                   submits, post, rateLimits, now, passed,
                   gameBoard>>

\* Promise.all of the second call resolves (grid.ts:219-223)
SecondPuzzleStored ==
    /\ second # Null /\ ValueOf(second).at = "store"
    /\ ValueOf(second).writers = [grid |-> "done", words |-> "done"]
    /\ second' = Some([ValueOf(second) EXCEPT !.at = "done",
                                              !.writers = NoWriters])
    /\ UNCHANGED <<randomTape, randomPos, scrabbleData, scrabbleWords,
                   dictionary, calls, pc, letters, grid, attempts,
                   validWords, foundPaths, rejects, writers, redis,
                   redisTtl, request, response, storedBefore, choice,
                   readable, initResult, submits, post, rateLimits, now,
                   passed,
                   gameBoard>>

InitRace ==
    /\ randomTape = [i \in 0..(TapeLen - 1) |-> 0]
    /\ randomPos = 0
    /\ scrabbleData = FileScore
    /\ scrabbleWords = Some(LoadWordSet(scrabbleData))
    /\ dictionary \in {[initialized |-> FALSE, scrabbleWords |-> Undefined],
                       [initialized |-> TRUE,
                        scrabbleWords |-> Some(LoadWordSet(scrabbleData))]}
    /\ calls = 1
    /\ pc = "generated"
    /\ grid \in RaceGrids
    /\ letters = [n \in 1..(GRID_SIZE * GRID_SIZE) |->
                     grid[(n - 1) \div GRID_SIZE][(n - 1) % GRID_SIZE]]
    /\ attempts = 1
    /\ validWords = <<>>
    /\ foundPaths = <<>>
    /\ rejects = 0
    /\ writers = NoWriters
    /\ redis = EmptyRedis
    /\ redisTtl = {}
    /\ request = Null
    /\ response = Null
    /\ storedBefore = [grid |-> Null, words |-> Null]
    /\ readable = TRUE
    /\ initResult = Null
    /\ submits = <<>>
    /\ post = "idle"
    /\ second = Null
    /\ rateLimits = EmptyRateLimits
    /\ now = 0
    /\ passed = NonePassed
    /\ gameBoard = Null
    /\ choice = Null

NextRace ==
    \/ FindValidWords
    \/ Accept
    \/ ResetDailyData
    \/ SetDailyGridSet
    \/ SetDailyGridExpire
    \/ SetDailyWordsSet
    \/ SetDailyWordsExpire
    \/ PuzzleStored
    \/ SecondCallGenerateDailyPuzzle
    \/ SecondFindValidWords
    \/ SecondResetDailyData
    \/ SecondSetDailyGridSet
    \/ SecondSetDailyGridExpire
    \/ SecondSetDailyWordsSet
    \/ SecondSetDailyWordsExpire
    \/ SecondPuzzleStored

SpecRace == InitRace /\ [][NextRace]_vars

(***************************************************************************)
(* The client: GameManager.startGame (client/main.ts:60-77) and the        *)
(* GameBoard it creates (client/components/GameComponents.ts:129-480).     *)
(* gameBoard holds the fields of the GameBoard (state.isActive,            *)
(* state.timeRemaining, state.score, state.foundWords, state.grid,         *)
(* timerInterval, selectedCells, currentWord, isValidating), the local     *)
(* isSelecting of setupEventListeners, the /api/validate-word request in   *)
(* flight (validating), the body sent to /api/submit-score (submitted),    *)
(* the results GameManager reads through getScore and getFoundWords        *)
(* (results), how far endGame is (ended), and the last message given to    *)
(* ComponentUtils.showError (shownError).  A cell is <<row, col>>, a word   *)
(* a sequence of letters.  The timer counts MaxSeconds seconds.            *)
(***************************************************************************)
\* the puzzle the client plays
ClientGrid ==
    LET rows == <<<<"C","A","T","S">>, <<"A","C","T","B">>,
                  <<"B","S","A","B">>, <<"C","A","T","S">>>>
    IN [i \in Idx |-> [j \in Idx |-> rows[i + 1][j + 1]]]

\* the cells under the pointer in the events of the model, and a position
\* outside every cell
TouchCells == {c \in Idx \X Idx : c[1] <= 1}

EventTargets == TouchCells \cup {<<-1, -1>>}

\* GameBoard.findCellFromEvent (GameComponents.ts:219-242)
findCellFromEvent(target) ==
    IF target[1] >= 0 /\ target[1] < 4 /\ target[2] >= 0 /\ target[2] < 4
    THEN Some(target) ELSE Null

Abs(n) == IF n < 0 THEN -n ELSE n

\* isValidNextCell without the test that the cell is not selected yet
isValidNextCellRevisiting(board, cell) ==
    IF Len(board.selectedCells) = 0 THEN TRUE
    ELSE LET lastCell == board.selectedCells[Len(board.selectedCells)]
             rowDiff == Abs(cell[1] - lastCell[1])
             colDiff == Abs(cell[2] - lastCell[2])
         IN /\ rowDiff <= 1 /\ colDiff <= 1
            /\ ~(cell[1] = lastCell[1] /\ cell[2] = lastCell[2])

\* GameBoard.isValidNextCell (GameComponents.ts:244-256)
isValidNextCell(board, cell) ==
    IF Len(board.selectedCells) = 0 THEN TRUE
    ELSE LET lastCell == board.selectedCells[Len(board.selectedCells)]
             rowDiff == Abs(cell[1] - lastCell[1])
             colDiff == Abs(cell[2] - lastCell[2])
         IN /\ rowDiff <= 1 /\ colDiff <= 1
            /\ ~(cell[1] = lastCell[1] /\ cell[2] = lastCell[2])
            /\ ~\E k \in 1..Len(board.selectedCells) :
                   /\ board.selectedCells[k][1] = cell[1]
                   /\ board.selectedCells[k][2] = cell[2]

\* GameBoard.addCell (GameComponents.ts:258-264)
addCell(board, cell) ==
    LET gridCell == board.grid[cell[1]][cell[2]]
    IN IF gridCell = "" THEN board
       ELSE [board EXCEPT !.selectedCells = Append(@, cell),
                          !.currentWord = Append(@, gridCell)]

\* GameManager.startGame: new GameBoard(gridData) (GameComponents.ts:139-
\* 153) with the grid of GET /api/daily-grid, then startTimer
\* (GameComponents.ts:379-385)
StartGame ==
    /\ gameBoard = Null
    /\ pc = "done"
    /\ getDailyGrid # Null
    /\ gameBoard' =
          Some([isActive |-> TRUE, timeRemaining |-> MaxSeconds, score |-> 0,
                foundWords |-> <<>>, grid |-> ValueOf(getDailyGrid).grid,
                timerInterval |-> TRUE, selectedCells |-> <<>>,
                currentWord |-> <<>>, isValidating |-> FALSE,
                isSelecting |-> FALSE, validating |-> Null,
                submitted |-> Null, results |-> Null, ended |-> "no",
                shownError |-> Null])
    /\ UNCHANGED <<randomTape, randomPos, scrabbleData, scrabbleWords,
                   dictionary, calls, pc, letters, grid, attempts,
                   validWords, foundPaths, rejects, writers, redis,
                   redisTtl, request, response, storedBefore, choice,
                   readable, initResult, submits, post, second, rateLimits,
                   now, passed>>

\* the GameBoard is on the page: GameManager.endGame has not replaced it
\* (client/main.ts:79-96)
OnPage == gameBoard # Null /\ ValueOf(gameBoard).ended # "shown"

\* handleTouchStart (GameComponents.ts:160-175)
HandleTouchStart(target) ==
    /\ OnPage
    /\ LET board == ValueOf(gameBoard)
           cleared == [board EXCEPT !.isSelecting = TRUE,
                                    !.selectedCells = <<>>,
                                    !.currentWord = <<>>]
           cell == findCellFromEvent(target)
       IN /\ board.isActive /\ ~board.isValidating
          /\ gameBoard' = Some(IF cell # Null
                               THEN addCell(cleared, ValueOf(cell))
                               ELSE cleared)
    /\ UNCHANGED <<randomTape, randomPos, scrabbleData, scrabbleWords,
                   dictionary, calls, pc, letters, grid, attempts,
                   validWords, foundPaths, rejects, writers, redis,
                   redisTtl, request, response, storedBefore, choice,
                   readable, initResult, submits, post, second, rateLimits,
                   now, passed>>

\* handleTouchMove (GameComponents.ts:177-187)
HandleTouchMove(target) ==
    /\ OnPage
    /\ LET board == ValueOf(gameBoard)
           cell == findCellFromEvent(target)
       IN /\ board.isSelecting /\ board.isActive /\ ~board.isValidating
          /\ Len(board.selectedCells) < MaxPath
          /\ cell # Null
          /\ isValidNextCell(board, ValueOf(cell))
          /\ gameBoard' = Some(addCell(board, ValueOf(cell)))
    /\ UNCHANGED <<randomTape, randomPos, scrabbleData, scrabbleWords,
                   dictionary, calls, pc, letters, grid, attempts,
                   validWords, foundPaths, rejects, writers, redis,
                   redisTtl, request, response, storedBefore, choice,
                   readable, initResult, submits, post, second, rateLimits,
                   now, passed>>

\* handleTouchEnd up to its await (GameComponents.ts:189-198) and, for a
\* word of fewer than three letters, to its end; validateWord sends word
\* and this.selectedCells (GameComponents.ts:266-282)
HandleTouchEnd ==
    /\ OnPage
    /\ LET board == ValueOf(gameBoard)
       IN /\ board.isSelecting /\ board.isActive
          /\ gameBoard' =
                Some(IF Len(board.currentWord) >= 3
                     THEN [board EXCEPT
                             !.isSelecting = FALSE,
                             !.isValidating = TRUE,
                             !.validating =
                                 Some([word |-> board.currentWord,
                                       path |-> board.selectedCells])]
                     ELSE [board EXCEPT !.isSelecting = FALSE,
                                        !.selectedCells = <<>>,
                                        !.currentWord = <<>>])
    /\ UNCHANGED <<randomTape, randomPos, scrabbleData, scrabbleWords,
                   dictionary, calls, pc, letters, grid, attempts,
                   validWords, foundPaths, rejects, writers, redis,
                   redisTtl, request, response, storedBefore, choice,
                   readable, initResult, submits, post, second, rateLimits,
                   now, passed>>

\* validateWord after its fetch (GameComponents.ts:284-300) with the answer
\* of POST /api/validate-word, then the rest of handleTouchEnd
\* (GameComponents.ts:199-208)
ValidateWordAnswered ==
    /\ gameBoard # Null
    /\ ValueOf(gameBoard).validating # Null
    /\ dictionary.initialized
    /\ LET board == ValueOf(gameBoard)
           sent == ValueOf(board.validating)
           result == validateWord(sent.word, sent.path,
                                  ValueOf(dictionary.scrabbleWords))
           counted ==
               IF result.isValid
               THEN IF ~\E k \in 1..Len(board.foundWords) :
                          board.foundWords[k] = sent.word
                    THEN [board EXCEPT !.foundWords = Append(@, sent.word),
                                       !.score = @ + result.score]
                    ELSE [board EXCEPT
                            !.shownError = Some("Word already found!")]
               ELSE IF result.message # ""
               THEN [board EXCEPT !.shownError = Some(result.message)]
               ELSE board
       IN gameBoard' = Some([counted EXCEPT !.validating = Null,
                                            !.isValidating = FALSE,
                                            !.selectedCells = <<>>,
                                            !.currentWord = <<>>])
    /\ UNCHANGED <<randomTape, randomPos, scrabbleData, scrabbleWords,
                   dictionary, calls, pc, letters, grid, attempts,
                   validWords, foundPaths, rejects, writers, redis,
                   redisTtl, request, response, storedBefore, choice,
                   readable, initResult, submits, post, second, rateLimits,
                   now, passed>>

\* validateWord giving up after its retries (GameComponents.ts:302-311),
\* then the rest of handleTouchEnd
ValidateWordFailed ==
    /\ gameBoard # Null
    /\ ValueOf(gameBoard).validating # Null
    /\ gameBoard' =
          Some([ValueOf(gameBoard) EXCEPT
                  !.shownError = Some("Network error. Please try again."),
                  !.validating = Null,
                  !.isValidating = FALSE,
                  !.selectedCells = <<>>,
                  !.currentWord = <<>>])
    /\ UNCHANGED <<randomTape, randomPos, scrabbleData, scrabbleWords,
                   dictionary, calls, pc, letters, grid, attempts,
                   validWords, foundPaths, rejects, writers, redis,
                   redisTtl, request, response, storedBefore, choice,
                   readable, initResult, submits, post, second, rateLimits,
                   now, passed>>

\* the interval callback of startTimer (GameComponents.ts:387-399); with
\* no time left it calls endGame, which runs to the fetch of
\* /api/submit-score (GameComponents.ts:402-423)
TimerTick ==
    /\ gameBoard # Null
    /\ ValueOf(gameBoard).timerInterval
    /\ LET board == ValueOf(gameBoard)
       IN gameBoard' =
             Some(IF board.timeRemaining <= 0
                  THEN [board EXCEPT
                          !.timerInterval = FALSE,
                          !.isActive = FALSE,
                          !.submitted =
                              Some([score |-> board.score,
                                    foundWords |-> board.foundWords,
                                    timeElapsed |->
                                        MaxSeconds - board.timeRemaining]),
                          !.ended = "submitting"]
                  ELSE [board EXCEPT !.timeRemaining = @ - 1])
    /\ UNCHANGED <<randomTape, randomPos, scrabbleData, scrabbleWords,
                   dictionary, calls, pc, letters, grid, attempts,
                   validWords, foundPaths, rejects, writers, redis,
                   redisTtl, request, response, storedBefore, choice,
                   readable, initResult, submits, post, second, rateLimits,
                   now, passed>>

\* endGame after its fetch, answered or failed: `finally` calls onTimeUp
\* (GameComponents.ts:425-441), which reads getScore() and getFoundWords()
\* (client/main.ts:65-72, GameComponents.ts:443-449)
SubmitScoreAnswered ==
    /\ gameBoard # Null
    /\ ValueOf(gameBoard).ended = "submitting"
    /\ LET board == ValueOf(gameBoard)
       IN gameBoard' =
             Some([board EXCEPT
                     !.results = Some([score |-> board.score,
                                       foundWords |-> board.foundWords]),
                     !.ended = "shown"])
    /\ UNCHANGED <<randomTape, randomPos, scrabbleData, scrabbleWords,
                   dictionary, calls, pc, letters, grid, attempts,
                   validWords, foundPaths, rejects, writers, redis,
                   redisTtl, request, response, storedBefore, choice,
                   readable, initResult, submits, post, second, rateLimits,
                   now, passed>>

InitClient ==
    /\ randomTape = [i \in 0..(TapeLen - 1) |-> 0]
    /\ randomPos = 0
    /\ scrabbleData = FileScore
    /\ scrabbleWords = Some(LoadWordSet(scrabbleData))
    /\ dictionary = [initialized |-> TRUE,
                     scrabbleWords |-> Some(LoadWordSet(scrabbleData))]
    /\ calls = 1
    /\ pc = "generated"
    /\ grid = ClientGrid
    /\ letters = [n \in 1..(GRID_SIZE * GRID_SIZE) |->
                     grid[(n - 1) \div GRID_SIZE][(n - 1) % GRID_SIZE]]
    /\ attempts = 1
    /\ validWords = <<>>
    /\ foundPaths = <<>>
    /\ rejects = 0
    /\ writers = NoWriters
    /\ redis = EmptyRedis
    /\ redisTtl = {}
    /\ request = Null
    /\ response = Null
    /\ storedBefore = [grid |-> Null, words |-> Null]
    /\ choice = Null
    /\ readable = TRUE
    /\ initResult = InitializeResolved
    /\ submits = <<>>
    /\ post = "idle"
    /\ second = Null
    /\ rateLimits = EmptyRateLimits
    /\ now = 0
    /\ passed = NonePassed
    /\ gameBoard = Null

NextClient ==
    \/ FindValidWords
    \/ Accept
    \/ ResetDailyData
    \/ SetDailyGridSet
    \/ SetDailyGridExpire
    \/ SetDailyWordsSet
    \/ SetDailyWordsExpire
    \/ PuzzleStored
    \/ StartGame
    \/ \E target \in EventTargets : HandleTouchStart(target)
    \/ \E target \in EventTargets : HandleTouchMove(target)
    \/ HandleTouchEnd
    \/ ValidateWordAnswered
    \/ ValidateWordFailed
    \/ TimerTick
    \/ SubmitScoreAnswered

SpecClient == InitClient /\ [][NextClient]_vars

(***************************************************************************)
(* Properties of the generated grid.                                       *)
(***************************************************************************)
CountCells(g, set) == Cardinality({c \in Idx \X Idx : g[c[1]][c[2]] \in set})

\* C1: every grid that generateGrid returns (placeLettersInGrid has
\* returned, after any failed attempts, grid resets and resamplings) has no
\* three identical consecutive letters in a row and none in a column.
C1_NoTripletInGeneratedGrid == pc = "generated" => ~HasTriplet(grid)

\* a grid returned after at least one refused placement and grid reset
C1_ReturnedAfterFailedAttempt == pc = "generated" /\ attempts >= 2

\* C2: every grid that generateGrid returns holds at least 4 vowels and at
\* least 8 consonants among its 16 cells.
C2_VowelAndConsonantMinimum ==
    pc = "generated" =>
        /\ CountCells(grid, {"A", "E", "I", "O", "U"}) >= 4
        /\ CountCells(grid, ConsonantSet) >= 8
        /\ CountCells(grid, VowelSet \cup ConsonantSet) = 16

\* a grid returned after a reshuffle, holding exactly the minimum of vowels
C2_ReturnedWithFourVowels ==
    /\ pc = "generated" /\ attempts >= 2
    /\ CountCells(grid, VowelSet) = 4

(***************************************************************************)
(* Properties of the word search.  Spelled is defined from the word, not   *)
(* from the search: some path of in-bounds cells, consecutive cells        *)
(* 8-adjacent and no cell twice, carries the letters of the word.          *)
(***************************************************************************)
Cells == Idx \X Idx

Adjacent(a, b) ==
    /\ a # b
    /\ a[1] - b[1] \in -1..1
    /\ a[2] - b[2] \in -1..1

RECURSIVE SpelledFrom(_, _, _, _, _)
SpelledFrom(g, word, k, last, used) ==
    \/ k > Len(word)
    \/ \E c \in Cells :
          /\ Adjacent(last, c) /\ c \notin used
          /\ g[c[1]][c[2]] = word[k]
          /\ SpelledFrom(g, word, k + 1, c, used \cup {c})

Spelled(g, word) ==
    /\ Len(word) >= 1
    /\ \E c \in Cells :
          g[c[1]][c[2]] = word[1] /\ SpelledFrom(g, word, 2, c, {c})

\* C3: every word of the set that findValidWords(grid) returns is in the
\* dictionary, has at least 3 letters and is spelled by a path of in-bounds
\* cells with consecutive cells 8-adjacent and no cell twice.
C3_FoundWordsAreDictionaryWordsOnAPath ==
    pc = "searched" =>
        \A k \in 1..Len(validWords) :
            /\ validWords[k] \in ValueOf(scrabbleWords)
            /\ Len(validWords[k]) >= 3
            /\ Spelled(grid, validWords[k])

\* a search that returned words and left out TAT, a dictionary word that the
\* grid spells only by using its one T twice
C3_SearchLeftOutReusedCell ==
    /\ pc = "searched" /\ Len(validWords) >= 3
    /\ <<"T","A","T">> \in ValueOf(scrabbleWords)
    /\ <<"T","A","T">> \notin Range(validWords)
    /\ CountCells(grid, {"T"}) = 1

\* C4: findValidWords(grid) returns exactly the dictionary words of at least
\* 3 letters that a non-repeating 8-adjacent path of the grid spells, each
\* once.
C4_FoundWordsAreExactlyTheSpelledOnes ==
    pc = "searched" =>
        /\ Range(validWords) =
              {w \in ValueOf(scrabbleWords) : Len(w) >= 3 /\ Spelled(grid, w)}
        /\ Cardinality(Range(validWords)) = Len(validWords)

\* the search of a grid in which CAT, CATS and ACT are connected returned
\* exactly these three
C4_FoundCatCatsAct ==
    /\ pc = "searched"
    /\ Range(validWords) =
          {<<"C","A","T">>, <<"C","A","T","S">>, <<"A","C","T">>}
    /\ Len(validWords) = 3

(***************************************************************************)
(* Properties of generateDailyPuzzle.                                      *)
(***************************************************************************)
\* C5: generateDailyPuzzle never stores a puzzle whose word set has fewer
\* than 10 words: after a search that found 9 words or fewer the only step
\* is the retry, which leaves the storage as it is, and whatever is written
\* under the grid and words keys belongs to a search that found 10 or more.
C5_SmallWordSetIsNeverStored ==
    [][/\ (pc = "searched" /\ Len(validWords) < 10) =>
            (pc' = "generate" /\ redis' = redis /\ redisTtl' = redisTtl)
       /\ (redis'[KEYS.DAILY_WORDS] # redis[KEYS.DAILY_WORDS]
            /\ redis'[KEYS.DAILY_WORDS] # Null) =>
            /\ Len(ValueOf(redis'[KEYS.DAILY_WORDS])) >= 10
            /\ ValueOf(redis'[KEYS.DAILY_WORDS]) = validWords
       /\ (redis'[KEYS.DAILY_GRID] # redis[KEYS.DAILY_GRID]
            /\ redis'[KEYS.DAILY_GRID] # Null) =>
            /\ Len(validWords) >= 10
            /\ ValueOf(redis'[KEYS.DAILY_GRID]).grid = grid]_vars

\* a grid with exactly 9 words was rejected, nothing was stored, and the
\* next generation has begun
C5_NineWordGridRejected ==
    /\ pc = "generate" /\ rejects >= 1
    /\ Len(validWords) = 9
    /\ redis = EmptyRedis

\* C6: generation is capped: once MaxRejects grids have been rejected the
\* call has stopped with a generation-failure error and samples no further
\* grid.
C6_GenerationStopsAtTheCap ==
    rejects >= MaxRejects => pc = "error"

(***************************************************************************)
(* Properties of validateWord, stated of an answered submission: the       *)
(* request and the body of the response, against the grid stored under     *)
(* the grid key.                                                           *)
(***************************************************************************)
Answered == response # Null /\ redis[KEYS.DAILY_GRID] # Null

StoredGrid == ValueOf(redis[KEYS.DAILY_GRID]).grid

HasRepeatedCell(path) ==
    \E m, n \in 1..Len(path) : m # n /\ path[m] = path[n]

HasJump(path) ==
    \E n \in 1..(Len(path) - 1) : ~Adjacent(path[n], path[n + 1])

\* the letters of g along path are the letters of word, whatever the case
PathSpells(g, path, word) ==
    /\ Len(path) = Len(word)
    /\ \A n \in 1..Len(path) :
          /\ path[n] \in Cells
          /\ toUpperCase(<<g[path[n][1]][path[n][2]]>>) = toUpperCase(<<word[n]>>)

\* C7: validateWord answers isValid = false to every submission whose path
\* holds the same cell more than once, even when the letters along the path
\* spell a word of the stored word set.
C7_RepeatedCellPathIsRejected ==
    Answered =>
        (HasRepeatedCell(ValueOf(response).request.path)
            => ~ValueOf(response).body.isValid)

\* C8: validateWord answers isValid = false to every submission whose path
\* has two consecutive positions that are not 8-adjacent, even when the
\* letters along the path spell a word of the stored word set.
C8_JumpPathIsRejected ==
    Answered =>
        (HasJump(ValueOf(response).request.path)
            => ~ValueOf(response).body.isValid)

\* C9 as stated: validateWord answers isValid = false whenever the grid
\* letters along the submitted path, compared without regard to case, differ
\* from the claimed word; the empty path is such a path.
C9_PathLettersDifferFromClaimedWord ==
    Answered =>
        (~PathSpells(StoredGrid, ValueOf(response).request.path,
                     ValueOf(response).request.word)
            => ~ValueOf(response).body.isValid)

\* C9 amended: validateWord answers isValid = false whenever the grid
\* letters along the submitted path, compared without regard to case, differ
\* from the claimed word with the white space around it removed; the empty
\* path is such a path.
C9_PathLettersDifferFromTrimmedWord ==
    Answered =>
        (~PathSpells(StoredGrid, ValueOf(response).request.path,
                     trim(ValueOf(response).request.word))
            => ~ValueOf(response).body.isValid)

\* a word of the puzzle sent in lower case with the path of another word, all
\* of it inside the grid and as long as the word, was answered "Path does
\* not match word"
C9_MismatchingPathRejected ==
    /\ Answered
    /\ ValueOf(response).body.message = "Path does not match word"
    /\ ~ValueOf(response).body.isValid
    /\ LET req == ValueOf(response).request
       IN /\ req.word # toUpperCase(req.word)
          /\ Len(req.path) = Len(req.word)
          /\ \A n \in 1..Len(req.path) : req.path[n] \in Cells
          /\ ~PathSpells(StoredGrid, req.path, req.word)

C11_CompletedCallLeavesGridAndItsWords ==
    [][(pc = "store" /\ pc' = "done") =>
          /\ redis'[KEYS.DAILY_GRID] # Null
          /\ redis'[KEYS.DAILY_WORDS] # Null
          /\ Range(ValueOf(redis'[KEYS.DAILY_WORDS])) =
                Range(findValidWords(
                          ValueOf(redis'[KEYS.DAILY_GRID]).grid).validWords)]_vars

\* the second call of generateDailyPuzzle has completed and its grid and
\* words have replaced those of the first
C11_SecondPuzzleStored ==
    /\ pc = "done" /\ calls = 2
    /\ redis[KEYS.DAILY_GRID] # Null /\ redis[KEYS.DAILY_WORDS] # Null
    /\ ValueOf(redis[KEYS.DAILY_GRID]).grid = grid
    /\ ValueOf(redis[KEYS.DAILY_WORDS]) = validWords

\* C12: storing a new daily puzzle resets the state of the previous one:
\* when generateDailyPuzzle completes, isGameCompleted reports no winner and
\* the daily leaderboard that updateLeaderboard writes and
\* getDailyLeaderboard reads holds no entry submitted before the reset.
C12_NewPuzzleResetsCompletionAndLeaderboard ==
    [][(pc = "store" /\ pc' = "done") =>
          /\ redis'[KEYS.COMPLETION] = Null
          /\ redis'[leaderboardKey] = Null
          /\ \A u \in Usernames : redis'[userKey(u)] = Null]_vars

\* C13: a failing generation does not corrupt what is persisted: when
\* generateDailyPuzzle has failed (a lookup threw during the search, or a
\* storage write failed), the grid and the word set that were stored before
\* the call are both still present and unchanged.
C13_FailedCallKeepsStoredPuzzle ==
    (pc = "error" /\ storedBefore.grid # Null /\ storedBefore.words # Null)
        => /\ redis[KEYS.DAILY_GRID] = storedBefore.grid
           /\ redis[KEYS.DAILY_WORDS] = storedBefore.words

\* C14: validateWord performs no dictionary lookup: a claimed word that is
\* in the stored word set and is spelled by the path in the stored grid is
\* accepted whether or not the dictionary contains it.
C14_StoredWordOnItsPathIsAccepted ==
    (Answered /\ redis[KEYS.DAILY_WORDS] # Null) =>
        LET req == ValueOf(response).request
        IN (/\ toUpperCase(trim(req.word))
                  \in Range(ValueOf(redis[KEYS.DAILY_WORDS]))
            /\ PathSpells(StoredGrid, req.path, trim(req.word)))
           => ValueOf(response).body.isValid

RECURSIVE WalkedPaths(_)
WalkedPaths(n) ==
    IF n = 0 THEN {<<>>}
    ELSE IF n = 1 THEN {<<c>> : c \in Idx \X Idx}
    ELSE UNION {{Append(p, c) :
                    c \in {d \in Idx \X Idx :
                              /\ d \notin Range(p)
                              /\ d[1] - p[Len(p)][1] \in {-1, 0, 1}
                              /\ d[2] - p[Len(p)][2] \in {-1, 0, 1}}} :
                p \in WalkedPaths(n - 1)}

\* the search state before the traversal from the n-th starting cell, in
\* the order of the two loops of findValidWords; with n = 17, at its return
RECURSIVE BeforeStartCell(_, _, _)
BeforeStartCell(g, depth, n) ==
    IF n = 1 THEN [visited |-> {}, validWords |-> <<>>, paths |-> <<>>]
    ELSE StartCell(g, (n - 2) \div GRID_SIZE, (n - 2) % GRID_SIZE, depth,
                   BeforeStartCell(g, depth, n - 1))

\* C17: every findWordsFromCell frame leaves the visited markers as it
\* found them on entry (whichever cell it is called for, after whichever
\* walked path), so no cell is marked visited at the start of the traversal
\* from each of the 16 starting cells, nor when findValidWords returns.
C17_VisitedRestored ==
    pc = "searched" =>
        LET depth == LongestWord(ValueOf(scrabbleWords))
        IN /\ \A n \in 0..(depth - 1) : \A p \in WalkedPaths(n) :
                  \A c \in (Idx \X Idx) \cup OutsidePositions :
                     findWordsFromCell(
                         grid, c[1], c[2],
                         [k \in 1..n |-> grid[p[k][1]][p[k][2]]], p, depth,
                         [visited |-> Range(p), validWords |-> <<>>,
                          paths |-> <<>>]).visited = Range(p)
           /\ \A n \in 1..(GRID_SIZE * GRID_SIZE) :
                  BeforeStartCell(grid, depth, n).visited = {}
           /\ BeforeStartCell(grid, depth, GRID_SIZE * GRID_SIZE + 1)
                  = findValidWords(grid)
           /\ findValidWords(grid).visited = {}

\* a search that marked cells on its way (it found a word of four letters
\* along a path of four cells) has returned
C17_SearchWithMarkedCellsReturned ==
    /\ pc = "searched"
    /\ \E k \in 1..Len(foundPaths) :
          /\ Len(foundPaths[k]) = 4
          /\ Cardinality(Range(foundPaths[k])) = 4
\* the letters array placed row by row
PlacedRowByRow(g, array) ==
    \A i \in Idx, j \in Idx : g[i][j] = array[i * GRID_SIZE + j + 1]

\* C18: placeLettersInGrid makes at most 10 attempts with one letter set;
\* after a 10th attempt that failed it samples a new set with
\* generateBalancedLetterSet and starts over with it, attempts at 0; and
\* the grid it returns is never the reset grid of a failed attempt, but the
\* letters of the last shuffle placed row by row.
C18_TenAttemptsThenNewLetters ==
    [][/\ attempts' <= maxAttempts
       /\ (pc = "placed" /\ grid = FilledWithA) =>
              /\ attempts = maxAttempts
              /\ pc' = "place"
              /\ attempts' = 0
              /\ letters' = generateBalancedLetterSet(randomPos).letters
       /\ (pc = "placed" /\ pc' = "generated") =>
              /\ grid' # FilledWithA
              /\ PlacedRowByRow(grid', letters')]_vars

\* ten attempts with one letter set have failed and left the grid reset
C18_TenAttemptsFailed ==
    /\ pc = "placed"
    /\ attempts = maxAttempts
    /\ grid = FilledWithA
\* C19: weightedRandomChoice called with an empty list raises the error
\* 'Cannot make a choice from an empty array' and returns no letter;
\* called with a non-empty list it returns a member of that list.
C19_EmptyListThrowsElseAMember ==
    (choice # Null /\ ValueOf(choice).returned # Null) =>
        LET items == ValueOf(choice).items
            returned == ValueOf(ValueOf(choice).returned)
        IN IF Len(items) = 0
           THEN /\ returned = "Error: Cannot make a choice from an empty array"
                /\ returned \notin ChoiceLetters
           ELSE returned \in Range(items)

\* the call with the empty list has raised the error
C19_EmptyListThrew ==
    /\ choice # Null
    /\ ValueOf(choice).items = <<>>
    /\ ValueOf(choice).returned
          = Some("Error: Cannot make a choice from an empty array")
C28_SuccessfulPlacementIsReturned ==
    [][(pc = "placed" /\ grid # FilledWithA /\ PlacedRowByRow(grid, letters))
          => /\ pc' = "generated"
             /\ grid' = grid
             /\ letters' = letters]_vars

\* C25: GridGenerator's word set has been loaded before generateDailyPuzzle
\* looks a word up: the search never starts with scrabbleWords undefined.
C25_SearchRunsOnLoadedWordSet ==
    [][(pc = "generated" /\ pc' # "generated") => scrabbleWords # Undefined]_vars

\* the leaderboard: the sorted set with the ranking scores and the users'
\* records
LeaderboardOf(store) ==
    [k \in {leaderboardKey} \cup {userKey(u) : u \in Submitters} |-> store[k]]

\* C21: once a winner is recorded, no step of a /api/submit-score handler
\* changes the leaderboard or the recorded winner until the daily data is
\* reset, however the handlers of several requests interleave.
C21_ClosedLeaderboardDoesNotChange ==
    [][(redis[KEYS.COMPLETION] # Null /\ pc = "done" /\ pc' = "done")
          => /\ redis'[KEYS.COMPLETION] = redis[KEYS.COMPLETION]
             /\ LeaderboardOf(redis') = LeaderboardOf(redis)]_vars

\* C23: the leaderboard keeps each user's best score: no updateLeaderboard
\* call lowers the user's ranking score in the sorted set, and after every
\* call that score equals the score of the user's record.
C23_BestScoreKept ==
    [][\A u \in Submitters :
          (/\ pc = "done" /\ pc' = "done"
           /\ redis[leaderboardKey] # Null
           /\ u \in DOMAIN ValueOf(redis[leaderboardKey]))
             => /\ redis'[leaderboardKey] # Null
                /\ u \in DOMAIN ValueOf(redis'[leaderboardKey])
                /\ ValueOf(redis'[leaderboardKey])[u]
                      >= ValueOf(redis[leaderboardKey])[u]
                /\ redis'[userKey(u)] # Null
                /\ ValueOf(redis'[leaderboardKey])[u]
                      = ValueOf(redis'[userKey(u)]).score]_vars

\* C27: a winner is recorded only for a submission whose words cover the
\* daily word set: the recorded winner has sent a request whose words, in
\* upper case, are all the stored words.
C27_WinnerFoundEveryWord ==
    (pc = "done" /\ redis[KEYS.COMPLETION] # Null /\ getDailyWords # Null) =>
        \E i \in 1..Len(submits) :
           /\ submits[i].user = ValueOf(redis[KEYS.COMPLETION])
           /\ {toUpperCase(submits[i].words[k]) : k \in 1..Len(submits[i].words)}
                 = ValueOf(getDailyWords)

\* C22: in any 60-second interval no more than 60 requests from one IP
\* reach a handler: of the requests an address got through the limiter, the
\* 61st after any one of them came at least 60000 ms after it.
C22_AtMostSixtyPerMinute ==
    \A ip \in Ips :
       \A i \in 1..Len(passed[ip]) :
          (i + maxRequests) \in 1..Len(passed[ip])
             => passed[ip][i + maxRequests] - passed[ip][i] >= windowMs

\* C26: after createPost has returned, the daily grid and the daily words
\* are in storage, where GET /api/daily-grid finds the grid.
C26_PuzzleStoredAfterCreatePost ==
    post = "returned"
       => /\ redis[KEYS.DAILY_GRID] # Null
          /\ redis[KEYS.DAILY_WORDS] # Null

\* C24: under every interleaving of the calls of generateDailyPuzzle,
\* whenever the storage holds both a daily grid and daily words, the words
\* are those that findValidWords computes from that grid.
C24_StoredWordsBelongToStoredGrid ==
    (redis[KEYS.DAILY_GRID] # Null /\ redis[KEYS.DAILY_WORDS] # Null)
       => Range(ValueOf(redis[KEYS.DAILY_WORDS])) =
             Range(findValidWords(ValueOf(redis[KEYS.DAILY_GRID]).grid).validWords)

(***************************************************************************)
(* Properties of the client.                                               *)
(***************************************************************************)
\* the letters of grid g along the cells of path
LettersAlong(g, path) == [k \in 1..Len(path) |-> g[path[k][1]][path[k][2]]]

\* C29: after any sequence of start, move and end events selectedCells is
\* a valid path (every cell inside the 4x4 grid, consecutive cells
\* 8-adjacent, no cell twice) and currentWord is the grid letters along it.
C29_SelectionIsAPathSpellingCurrentWord ==
    gameBoard # Null =>
       LET board == ValueOf(gameBoard)
           cells == board.selectedCells
       IN /\ \A k \in 1..Len(cells) : cells[k] \in Idx \X Idx
          /\ \A k \in 1..(Len(cells) - 1) :
                /\ Abs(cells[k + 1][1] - cells[k][1]) <= 1
                /\ Abs(cells[k + 1][2] - cells[k][2]) <= 1
          /\ \A k, n \in 1..Len(cells) : k # n => cells[k] # cells[n]
          /\ board.currentWord = LettersAlong(board.grid, cells)

\* a selection of MaxPath cells in progress whose last cell is next to its
\* first, so that the next move event may point at a selected cell
C29_LongSelectionBesideEarlierCell ==
    /\ gameBoard # Null
    /\ Len(ValueOf(gameBoard).selectedCells) = MaxPath
    /\ ValueOf(gameBoard).isSelecting
    /\ LET cells == ValueOf(gameBoard).selectedCells
       IN /\ Abs(cells[MaxPath][1] - cells[1][1]) <= 1
          /\ Abs(cells[MaxPath][2] - cells[1][2]) <= 1

\* C30: once the game has ended (timeRemaining 0, isActive false) score and
\* foundWords no longer change, and the score GameManager reads through
\* getScore is the score that was sent to /api/submit-score.
C30_ScoreFixedAfterGameEnd ==
    [][/\ (/\ gameBoard # Null
            /\ ~ValueOf(gameBoard).isActive
            /\ ValueOf(gameBoard).timeRemaining = 0)
           => /\ ValueOf(gameBoard').score = ValueOf(gameBoard).score
              /\ ValueOf(gameBoard').foundWords
                    = ValueOf(gameBoard).foundWords
       /\ (gameBoard' # Null /\ ValueOf(gameBoard').results # Null)
           => ValueOf(ValueOf(gameBoard').results).score
                 = ValueOf(ValueOf(gameBoard').submitted).score]_vars

====
